---- MODULE Spec2Model ----
(***************************************************************************)
(* The transports of capnweb (MessagePort, WebSocket, Chrome extension,    *)
(* duplex stream) as state machines.  One transport object is modelled at  *)
(* a time; Init chooses which class it is (variable transport), and the    *)
(* variables hold that object's private fields, the promises its methods   *)
(* returned, and what it handed to the channel underneath it.  Further     *)
(* specifications cover a pair of MessagePort transports (PairSpec), the   *)
(* codecs (CodecSpec), the session helpers (HelperSpec) and the Chrome     *)
(* extension handshake (HandshakeSpec).                                    *)
(***************************************************************************)
EXTENDS Integers, Sequences, FiniteSets, TLC

\* ------------------------------------------------------------- bounds
MaxEvents == 2      \* inbound events delivered to the transport's listeners
MaxReceives == 2    \* receive() calls
MaxSends == 2       \* send() calls
MaxAborts == 1      \* abort() calls
MaxSteps == 4       \* calls and events in one scenario, all together

\* ------------------------------------------------------------- values
NoError == "undefined"
NoMsg == [kind |-> "none", data |-> <<>>]

\* A WireMessage is a string, a Uint8Array or an ArrayBuffer; data is its content.
Str(d) == [kind |-> "string", data |-> d]
U8(d) == [kind |-> "u8", data |-> d]
AB(d) == [kind |-> "ab", data |-> d]

\* Frames offered to the queue transports (their content is opaque to them).
Frames == {Str(<<1>>), U8(<<2>>)}

\* Reasons the caller passes to abort(): an Error instance and a non-Error value.
Reasons == {"Error: aborted", "aborted (not an Error)"}

IsErrorInstance(e) == e # "aborted (not an Error)"

VARIABLES
  transport,        \* which class the object is
  error,            \* #error
  receiveQueue,     \* #receiveQueue
  receiveResolver,  \* #receiveResolver / #receiveRejecter: index into recvs, 0 = undefined
  recvs,            \* the promises returned by receive(), in call order
  sends,            \* the promises returned by send(), in call order
  chan,             \* what the transport handed to the underlying channel, in order
  events,           \* the inbound events delivered to the listeners, in order
  aborts,           \* the abort() calls, in order: the reason, and #error before the call
  readyState,       \* WebSocket: the socket's readyState
  sendQueue,        \* WebSocket: #sendQueue, [defined, items]
  tabId,            \* ChromeExtension: #tabId, 0 = undefined
  handshake,        \* ChromeExtension: #handshakePromise: "none", "pending" or "resolved"
  listenerAttached, \* ChromeExtension: #listenerAttached
  ctorTabId,        \* ChromeExtension: the tabId the constructor was given, 0 = undefined
  readBuffer,       \* Stream: #readBuffer, a sequence of bytes
  expectedLength,   \* Stream: #expectedLength, -1 = undefined
  reading,          \* Stream: index in recvs of the receive() awaiting #reader.read(), 0 = none
  wire,             \* Stream: bytes the readable has still to deliver
  sunk,             \* Stream: how many of the chunks written the writable's sink has taken
  wstate,           \* Stream: the writable's stored error, NoError while it is writable
  rstate,           \* Stream: the readable: "readable", "closed", "cancelled" or "errored"
  peer,             \* the endpoint at the other end of the channel, NoPeer when it is not modelled
  codecIn,          \* the argument handed to the codecs' methods
  codecOut,         \* what the codecs' methods returned for it, by method
  made              \* what the session helpers called so far created, in call order

wsVars == <<readyState, sendQueue>>
ceVars == <<tabId, handshake, listenerAttached, ctorTabId>>
stVars == <<readBuffer, expectedLength, reading, wire, sunk, wstate, rstate>>

NoPeer == [kind |-> "none"]
NoInput == [op |-> "none"]

\* The state outside the transport object.
others == <<peer, codecIn, codecOut, made>>

vars == <<transport, error, receiveQueue, receiveResolver, recvs, sends, chan, events, aborts,
          wsVars, ceVars, stVars, others>>

\* Calls made and events delivered so far.
Steps == Len(events) + Len(recvs) + Len(sends) + Len(aborts)

Pending == [st |-> "pending", val |-> NoMsg, err |-> NoError]
Resolved(m) == [st |-> "resolved", val |-> m, err |-> NoError]
Rejected(e) == [st |-> "rejected", val |-> NoMsg, err |-> e]

Event(t, v, tab) == [type |-> t, value |-> v, tab |-> tab]

\* ------------------------------------------------------- MessagePort
MP_PeerClosed == "Error: Peer closed MessagePort connection."
MP_Unsupported == "TypeError: Received unsupported message from MessagePort."
MP_MessageError == "Error: MessagePort message error."

MP_Data == {Event("MESSAGE", f, 0) : f \in Frames} \cup {Event("CLOSE", NoMsg, 0), Event("other", NoMsg, 0)}

\* MP_receivedError, were it to leave the pending receive() alone.
MP_receivedError_keepsPending(reason) ==
  IF error = NoError
    THEN error' = reason /\ UNCHANGED <<recvs, receiveResolver>>
    ELSE UNCHANGED <<error, recvs, receiveResolver>>

MP_receivedError(reason) ==
  IF error = NoError
    THEN /\ error' = reason
         /\ IF receiveResolver # 0
              THEN /\ recvs' = [recvs EXCEPT ![receiveResolver] = Rejected(reason)]
                   /\ receiveResolver' = 0
              ELSE UNCHANGED <<recvs, receiveResolver>>
    ELSE UNCHANGED <<error, recvs, receiveResolver>>

\* The listener, were it not to look at #error.
MP_messageListener_ignoresError(ev) ==
  /\ events' = Append(events, ev)
  /\ IF FALSE
       THEN UNCHANGED <<error, recvs, receiveResolver, receiveQueue>>
       ELSE IF ev.type = "CLOSE"
         THEN MP_receivedError(MP_PeerClosed) /\ UNCHANGED receiveQueue
         ELSE IF ev.type = "MESSAGE"
           THEN IF receiveResolver # 0
                  THEN /\ recvs' = [recvs EXCEPT ![receiveResolver] = Resolved(ev.value)]
                       /\ receiveResolver' = 0
                       /\ UNCHANGED <<error, receiveQueue>>
                  ELSE /\ receiveQueue' = Append(receiveQueue, ev.value)
                       /\ UNCHANGED <<error, recvs, receiveResolver>>
           ELSE MP_receivedError(MP_Unsupported) /\ UNCHANGED receiveQueue

\* The "message" listener, run on the event ev.
MP_messageListener(ev) ==
  /\ events' = Append(events, ev)
  /\ IF error # NoError
       THEN UNCHANGED <<error, recvs, receiveResolver, receiveQueue>>
       ELSE IF ev.type = "CLOSE"
         THEN MP_receivedError(MP_PeerClosed) /\ UNCHANGED receiveQueue
         ELSE IF ev.type = "MESSAGE"
           THEN IF receiveResolver # 0
                  THEN /\ recvs' = [recvs EXCEPT ![receiveResolver] = Resolved(ev.value)]
                       /\ receiveResolver' = 0
                       /\ UNCHANGED <<error, receiveQueue>>
                  ELSE /\ receiveQueue' = Append(receiveQueue, ev.value)
                       /\ UNCHANGED <<error, recvs, receiveResolver>>
           ELSE MP_receivedError(MP_Unsupported) /\ UNCHANGED receiveQueue

MP_onmessage(ev) ==
  /\ transport = "MessagePort"
  /\ Len(events) < MaxEvents /\ Steps < MaxSteps
  /\ MP_messageListener(ev)
  /\ UNCHANGED <<transport, others, stVars, wsVars, ceVars, sends, chan, aborts>>

MP_onmessageerror ==
  /\ transport = "MessagePort"
  /\ Len(events) < MaxEvents /\ Steps < MaxSteps
  /\ events' = Append(events, Event("messageerror", NoMsg, 0))
  /\ MP_receivedError(MP_MessageError)
  /\ UNCHANGED <<transport, others, stVars, wsVars, ceVars, receiveQueue, sends, chan, aborts>>

MP_send(message) ==
  /\ transport = "MessagePort"
  /\ Len(sends) < MaxSends /\ Steps < MaxSteps
  /\ IF error # NoError
       THEN /\ sends' = Append(sends, [msg |-> message, st |-> "rejected", err |-> error])
            /\ UNCHANGED chan
       ELSE /\ chan' = Append(chan, [type |-> "MESSAGE", value |-> message, tab |-> 0])
            /\ sends' = Append(sends, [msg |-> message, st |-> "resolved", err |-> NoError])
  /\ UNCHANGED <<transport, others, stVars, wsVars, ceVars, error, receiveQueue, receiveResolver, recvs, events, aborts>>

\* The body of receive(), were it to look at #error before the queue.
MP_receiveBody_errorFirst ==
  IF error # NoError
    THEN /\ recvs' = Append(recvs, Rejected(error))
         /\ UNCHANGED <<receiveQueue, receiveResolver>>
    ELSE IF Len(receiveQueue) > 0
      THEN /\ recvs' = Append(recvs, Resolved(Head(receiveQueue)))
           /\ receiveQueue' = Tail(receiveQueue)
           /\ UNCHANGED receiveResolver
      ELSE /\ recvs' = Append(recvs, Pending)
           /\ receiveResolver' = Len(recvs) + 1
           /\ UNCHANGED receiveQueue

\* The body of receive().
MP_receiveBody ==
  IF Len(receiveQueue) > 0
    THEN /\ recvs' = Append(recvs, Resolved(Head(receiveQueue)))
         /\ receiveQueue' = Tail(receiveQueue)
         /\ UNCHANGED receiveResolver
    ELSE IF error # NoError
      THEN /\ recvs' = Append(recvs, Rejected(error))
           /\ UNCHANGED <<receiveQueue, receiveResolver>>
      ELSE /\ recvs' = Append(recvs, Pending)
           /\ receiveResolver' = Len(recvs) + 1
           /\ UNCHANGED receiveQueue

\* MP_receive, were it to hand out the newest queued frame first.
MP_receive_newestFirst ==
  /\ transport = "MessagePort"
  /\ Len(recvs) < MaxReceives /\ Steps < MaxSteps
  /\ IF Len(receiveQueue) > 0
       THEN /\ recvs' = Append(recvs, Resolved(receiveQueue[Len(receiveQueue)]))
            /\ receiveQueue' = SubSeq(receiveQueue, 1, Len(receiveQueue) - 1)
            /\ UNCHANGED receiveResolver
       ELSE IF error # NoError
         THEN /\ recvs' = Append(recvs, Rejected(error))
              /\ UNCHANGED <<receiveQueue, receiveResolver>>
         ELSE /\ recvs' = Append(recvs, Pending)
              /\ receiveResolver' = Len(recvs) + 1
              /\ UNCHANGED receiveQueue
  /\ UNCHANGED <<transport, others, stVars, wsVars, ceVars, error, sends, chan, events, aborts>>

MP_receive ==
  /\ transport = "MessagePort"
  /\ Len(recvs) < MaxReceives /\ Steps < MaxSteps
  /\ MP_receiveBody
  /\ UNCHANGED <<transport, others, stVars, wsVars, ceVars, error, sends, chan, events, aborts>>

MP_abort(reason) ==
  /\ transport = "MessagePort"
  /\ Len(aborts) < MaxAborts /\ Steps < MaxSteps
  /\ aborts' = Append(aborts, [reason |-> reason, prior |-> error])
  /\ chan' = chan \o <<[type |-> "CLOSE", value |-> NoMsg, tab |-> 0],
                       [type |-> "close()", value |-> NoMsg, tab |-> 0]>>
  /\ error' = IF error = NoError THEN reason ELSE error
  /\ UNCHANGED <<transport, others, stVars, wsVars, ceVars, receiveQueue, receiveResolver, recvs, sends, events>>

\* ------------------------------------- MessagePort, raw-frame variant
\* The variant of MessagePortTransport that posts and accepts bare frames: a frame
\* is a string, an ArrayBuffer or a Uint8Array, and null is the close signal.
MPR_Null == [kind |-> "null", data |-> <<>>]
MPR_Object == [kind |-> "object", data |-> <<>>]
MPR_Data == Frames \cup {AB(<<3>>), MPR_Null, MPR_Object}

MPR_receivedError(reason) ==
  IF error = NoError
    THEN /\ error' = reason
         /\ IF receiveResolver # 0
              THEN /\ recvs' = [recvs EXCEPT ![receiveResolver] = Rejected(reason)]
                   /\ receiveResolver' = 0
              ELSE UNCHANGED <<recvs, receiveResolver>>
    ELSE UNCHANGED <<error, recvs, receiveResolver>>

\* MPR_onmessage, were it to drop what it does not recognise.
MPR_onmessage_dropsUnsupported(data) ==
  /\ transport = "MessagePortRaw"
  /\ Len(events) < MaxEvents /\ Steps < MaxSteps
  /\ events' = Append(events, Event("data", data, 0))
  /\ IF error # NoError
       THEN UNCHANGED <<error, recvs, receiveResolver, receiveQueue>>
       ELSE IF data = MPR_Null
         THEN MPR_receivedError(MP_PeerClosed) /\ UNCHANGED receiveQueue
         ELSE IF data.kind \in {"string", "ab", "u8"}
           THEN IF receiveResolver # 0
                  THEN /\ recvs' = [recvs EXCEPT ![receiveResolver] = Resolved(data)]
                       /\ receiveResolver' = 0
                       /\ UNCHANGED <<error, receiveQueue>>
                  ELSE /\ receiveQueue' = Append(receiveQueue, data)
                       /\ UNCHANGED <<error, recvs, receiveResolver>>
           ELSE UNCHANGED <<error, recvs, receiveResolver, receiveQueue>>
  /\ UNCHANGED <<transport, others, stVars, wsVars, ceVars, sends, chan, aborts>>

\* The "message" listener, run on an event whose data is data.
MPR_onmessage(data) ==
  /\ transport = "MessagePortRaw"
  /\ Len(events) < MaxEvents /\ Steps < MaxSteps
  /\ events' = Append(events, Event("data", data, 0))
  /\ IF error # NoError
       THEN UNCHANGED <<error, recvs, receiveResolver, receiveQueue>>
       ELSE IF data = MPR_Null
         THEN MPR_receivedError(MP_PeerClosed) /\ UNCHANGED receiveQueue
         ELSE IF data.kind \in {"string", "ab", "u8"}
           THEN IF receiveResolver # 0
                  THEN /\ recvs' = [recvs EXCEPT ![receiveResolver] = Resolved(data)]
                       /\ receiveResolver' = 0
                       /\ UNCHANGED <<error, receiveQueue>>
                  ELSE /\ receiveQueue' = Append(receiveQueue, data)
                       /\ UNCHANGED <<error, recvs, receiveResolver>>
           ELSE MPR_receivedError(MP_Unsupported) /\ UNCHANGED receiveQueue
  /\ UNCHANGED <<transport, others, stVars, wsVars, ceVars, sends, chan, aborts>>

MPR_onmessageerror ==
  /\ transport = "MessagePortRaw"
  /\ Len(events) < MaxEvents /\ Steps < MaxSteps
  /\ events' = Append(events, Event("messageerror", NoMsg, 0))
  /\ MPR_receivedError(MP_MessageError)
  /\ UNCHANGED <<transport, others, stVars, wsVars, ceVars, receiveQueue, sends, chan, aborts>>

MPR_send(message) ==
  /\ transport = "MessagePortRaw"
  /\ Len(sends) < MaxSends /\ Steps < MaxSteps
  /\ IF error # NoError
       THEN /\ sends' = Append(sends, [msg |-> message, st |-> "rejected", err |-> error])
            /\ UNCHANGED chan
       ELSE /\ chan' = Append(chan, [type |-> "data", value |-> message, tab |-> 0])
            /\ sends' = Append(sends, [msg |-> message, st |-> "resolved", err |-> NoError])
  /\ UNCHANGED <<transport, others, stVars, wsVars, ceVars, error, receiveQueue, receiveResolver, recvs, events, aborts>>

MPR_receive ==
  /\ transport = "MessagePortRaw"
  /\ Len(recvs) < MaxReceives /\ Steps < MaxSteps
  /\ IF Len(receiveQueue) > 0
       THEN /\ recvs' = Append(recvs, Resolved(Head(receiveQueue)))
            /\ receiveQueue' = Tail(receiveQueue)
            /\ UNCHANGED receiveResolver
       ELSE IF error # NoError
         THEN /\ recvs' = Append(recvs, Rejected(error))
              /\ UNCHANGED <<receiveQueue, receiveResolver>>
         ELSE /\ recvs' = Append(recvs, Pending)
              /\ receiveResolver' = Len(recvs) + 1
              /\ UNCHANGED receiveQueue
  /\ UNCHANGED <<transport, others, stVars, wsVars, ceVars, error, sends, chan, events, aborts>>

MPR_abort(reason) ==
  /\ transport = "MessagePortRaw"
  /\ Len(aborts) < MaxAborts /\ Steps < MaxSteps
  /\ aborts' = Append(aborts, [reason |-> reason, prior |-> error])
  /\ chan' = chan \o <<[type |-> "data", value |-> MPR_Null, tab |-> 0],
                       [type |-> "close()", value |-> NoMsg, tab |-> 0]>>
  /\ error' = IF error = NoError THEN reason ELSE error
  /\ UNCHANGED <<transport, others, stVars, wsVars, ceVars, receiveQueue, receiveResolver, recvs, sends, events>>

\* --------------------------------------------------------- WebSocket
WS_Unsupported == "TypeError: Received unsupported message type from WebSocket."
WS_PeerClosed == "Error: Peer closed WebSocket: code reason"
WS_Failed == "Error: WebSocket connection failed."
WS_SendThrew == "Error: thrown by WebSocket.send"

Blob == [kind |-> "blob", data |-> <<>>]
WS_Data == Frames \cup {AB(<<3>>), Blob}

Fired(type) == \E i \in 1..Len(events) : events[i].type = type

WS_receivedError(reason) ==
  IF error = NoError
    THEN /\ error' = reason
         /\ IF receiveResolver # 0
              THEN /\ recvs' = [recvs EXCEPT ![receiveResolver] = Rejected(reason)]
                   /\ receiveResolver' = 0
              ELSE UNCHANGED <<recvs, receiveResolver>>
    ELSE UNCHANGED <<error, recvs, receiveResolver>>

\* WS_onopen, were it to flush the queue newest first.
WS_onopen_newestFirst(threw) ==
  /\ transport = "WebSocket"
  /\ readyState = "CONNECTING"
  /\ Len(events) < MaxEvents /\ Steps < MaxSteps
  /\ threw \in 0..Len(sendQueue.items)
  /\ events' = Append(events, Event("open", NoMsg, 0))
  /\ readyState' = "OPEN"
  /\ LET n == Len(sendQueue.items)
         handed == IF threw = 0 THEN sendQueue.items ELSE SubSeq(sendQueue.items, 1, threw)
     IN  chan' = chan \o [i \in 1..Len(handed) |->
                           [type |-> "send", value |-> sendQueue.items[n + 1 - i], tab |-> 0]]
  /\ IF threw # 0
       THEN WS_receivedError(WS_SendThrew)
       ELSE UNCHANGED <<error, recvs, receiveResolver>>
  /\ sendQueue' = [defined |-> FALSE, items |-> <<>>]
  /\ UNCHANGED <<transport, others, stVars, ceVars, receiveQueue, sends, aborts>>

\* The "open" listener.  WebSocket.send may throw; threw is the position in the
\* queue of the message on which it does, 0 when it does not.
WS_onopen(threw) ==
  /\ transport = "WebSocket"
  /\ readyState = "CONNECTING"
  /\ Len(events) < MaxEvents /\ Steps < MaxSteps
  /\ threw \in 0..Len(sendQueue.items)
  /\ events' = Append(events, Event("open", NoMsg, 0))
  /\ readyState' = "OPEN"
  /\ LET handed == IF threw = 0 THEN sendQueue.items ELSE SubSeq(sendQueue.items, 1, threw)
     IN  chan' = chan \o [i \in 1..Len(handed) |-> [type |-> "send", value |-> handed[i], tab |-> 0]]
  /\ IF threw # 0
       THEN WS_receivedError(WS_SendThrew)
       ELSE UNCHANGED <<error, recvs, receiveResolver>>
  /\ sendQueue' = [defined |-> FALSE, items |-> <<>>]
  /\ UNCHANGED <<transport, others, stVars, ceVars, receiveQueue, sends, aborts>>

WS_onmessage(data) ==
  /\ transport = "WebSocket"
  /\ readyState \in {"OPEN", "CLOSING"}
  /\ Len(events) < MaxEvents /\ Steps < MaxSteps
  /\ events' = Append(events, Event("message", data, 0))
  /\ IF error # NoError
       THEN UNCHANGED <<error, recvs, receiveResolver, receiveQueue>>
       ELSE IF data.kind \in {"string", "u8", "ab"}
         THEN IF receiveResolver # 0
                THEN /\ recvs' = [recvs EXCEPT ![receiveResolver] = Resolved(data)]
                     /\ receiveResolver' = 0
                     /\ UNCHANGED <<error, receiveQueue>>
                ELSE /\ receiveQueue' = Append(receiveQueue, data)
                     /\ UNCHANGED <<error, recvs, receiveResolver>>
         ELSE WS_receivedError(WS_Unsupported) /\ UNCHANGED receiveQueue
  /\ UNCHANGED <<transport, others, stVars, wsVars, ceVars, sends, chan, aborts>>

WS_onclose ==
  /\ transport = "WebSocket"
  /\ ~Fired("close")
  /\ Len(events) < MaxEvents /\ Steps < MaxSteps
  /\ events' = Append(events, Event("close", NoMsg, 0))
  /\ readyState' = "CLOSED"
  /\ WS_receivedError(WS_PeerClosed)
  /\ UNCHANGED <<transport, others, stVars, sendQueue, ceVars, receiveQueue, sends, chan, aborts>>

WS_onerror ==
  /\ transport = "WebSocket"
  /\ ~Fired("close") /\ ~Fired("error")
  /\ Len(events) < MaxEvents /\ Steps < MaxSteps
  /\ events' = Append(events, Event("error", NoMsg, 0))
  /\ readyState' = "CLOSED"
  /\ WS_receivedError(WS_Failed)
  /\ UNCHANGED <<transport, others, stVars, sendQueue, ceVars, receiveQueue, sends, chan, aborts>>

\* send(): threw says whether WebSocket.send throws (then the promise rejects).
WS_send(message, threw) ==
  /\ transport = "WebSocket"
  /\ Len(sends) < MaxSends /\ Steps < MaxSteps
  /\ IF ~sendQueue.defined
       THEN /\ chan' = Append(chan, [type |-> "send", value |-> message, tab |-> 0])
            /\ sends' = Append(sends, IF threw
                 THEN [msg |-> message, st |-> "rejected", err |-> WS_SendThrew]
                 ELSE [msg |-> message, st |-> "resolved", err |-> NoError])
            /\ UNCHANGED sendQueue
       ELSE /\ ~threw
            /\ sendQueue' = [sendQueue EXCEPT !.items = Append(@, message)]
            /\ sends' = Append(sends, [msg |-> message, st |-> "resolved", err |-> NoError])
            /\ UNCHANGED chan
  /\ UNCHANGED <<transport, others, stVars, readyState, ceVars, error, receiveQueue, receiveResolver, recvs, events, aborts>>

\* WS_receive, were it not to look at #error.
WS_receive_ignoresError ==
  /\ transport = "WebSocket"
  /\ Len(recvs) < MaxReceives /\ Steps < MaxSteps
  /\ IF Len(receiveQueue) > 0
       THEN /\ recvs' = Append(recvs, Resolved(Head(receiveQueue)))
            /\ receiveQueue' = Tail(receiveQueue)
            /\ UNCHANGED receiveResolver
       ELSE /\ recvs' = Append(recvs, Pending)
            /\ receiveResolver' = Len(recvs) + 1
            /\ UNCHANGED receiveQueue
  /\ UNCHANGED <<transport, others, stVars, wsVars, ceVars, error, sends, chan, events, aborts>>

WS_receive ==
  /\ transport = "WebSocket"
  /\ Len(recvs) < MaxReceives /\ Steps < MaxSteps
  /\ IF Len(receiveQueue) > 0
       THEN /\ recvs' = Append(recvs, Resolved(Head(receiveQueue)))
            /\ receiveQueue' = Tail(receiveQueue)
            /\ UNCHANGED receiveResolver
       ELSE IF error # NoError
         THEN /\ recvs' = Append(recvs, Rejected(error))
              /\ UNCHANGED <<receiveQueue, receiveResolver>>
         ELSE /\ recvs' = Append(recvs, Pending)
              /\ receiveResolver' = Len(recvs) + 1
              /\ UNCHANGED receiveQueue
  /\ UNCHANGED <<transport, others, stVars, wsVars, ceVars, error, sends, chan, events, aborts>>

WS_abort(reason) ==
  /\ transport = "WebSocket"
  /\ Len(aborts) < MaxAborts /\ Steps < MaxSteps
  /\ aborts' = Append(aborts, [reason |-> reason, prior |-> error])
  /\ chan' = Append(chan, [type |-> "close()", value |-> NoMsg, tab |-> 0])
  /\ readyState' = IF readyState \in {"CONNECTING", "OPEN"} THEN "CLOSING" ELSE readyState
  /\ error' = IF error = NoError THEN reason ELSE error
  /\ UNCHANGED <<transport, others, stVars, sendQueue, ceVars, receiveQueue, receiveResolver, recvs, sends, events>>

\* --------------------------------------------------- ChromeExtension
CE_PeerClosed == "Error: Peer closed Chrome extension connection."
CE_SendFailed == "Error: Failed to send message: lastError"
CE_ChannelRejected == "Error: rejected by chrome messaging"

\* Sender tabs: 0 is a sender without a tab (sender.tab undefined).
\* The runtime messages offered to the listener: from tab 1 every kind of message,
\* from a sender without a tab a frame, from tab 2 a frame and a CLOSE.
CE_Inbound ==
  {Event("MESSAGE", f, 1) : f \in Frames}
    \cup {Event("CLOSE", NoMsg, 1), Event("other", NoMsg, 1)}
    \cup {Event("MESSAGE", Str(<<1>>), 0)}
    \cup {Event("MESSAGE", Str(<<1>>), 2), Event("CLOSE", NoMsg, 2)}

CE_receivedError(reason) ==
  IF error = NoError
    THEN /\ error' = reason
         /\ IF receiveResolver # 0
              THEN /\ recvs' = [recvs EXCEPT ![receiveResolver] = Rejected(reason)]
                   /\ receiveResolver' = 0
              ELSE UNCHANGED <<recvs, receiveResolver>>
    ELSE UNCHANGED <<error, recvs, receiveResolver>>

\* A send() whose `await this.#handshakePromise` has nothing left to wait for resumes
\* in a microtask, that is before the next event is delivered.
CE_microtasksDone ==
  handshake = "pending" \/ \A i \in 1..Len(sends) : sends[i].st # "awaitHandshake"

\* #handleMessage, were it not to compare the sender's tab with #tabId.
CE_handleMessage_noTabFilter(message, senderTab) ==
  /\ transport = "ChromeExtension"
  /\ CE_microtasksDone
  /\ Len(events) < MaxEvents /\ Steps < MaxSteps
  /\ events' = Append(events, [message EXCEPT !.tab = senderTab])
  /\ IF ~listenerAttached
       THEN UNCHANGED <<tabId, error, recvs, receiveResolver, receiveQueue>>
       ELSE
         /\ tabId' = IF tabId = 0 /\ senderTab # 0 THEN senderTab ELSE tabId
         /\ IF FALSE
              THEN UNCHANGED <<error, recvs, receiveResolver, receiveQueue>>
              ELSE IF error # NoError
                THEN UNCHANGED <<error, recvs, receiveResolver, receiveQueue>>
                ELSE IF message.type = "CLOSE"
                  THEN CE_receivedError(CE_PeerClosed) /\ UNCHANGED receiveQueue
                  ELSE IF message.type = "MESSAGE"
                    THEN IF receiveResolver # 0
                           THEN /\ recvs' = [recvs EXCEPT ![receiveResolver] = Resolved(message.value)]
                                /\ receiveResolver' = 0
                                /\ UNCHANGED <<error, receiveQueue>>
                           ELSE /\ receiveQueue' = Append(receiveQueue, message.value)
                                /\ UNCHANGED <<error, recvs, receiveResolver>>
                    ELSE UNCHANGED <<error, recvs, receiveResolver, receiveQueue>>
  /\ UNCHANGED <<transport, others, stVars, wsVars, handshake, listenerAttached, ctorTabId, sends, chan, aborts>>

\* #handleMessage(message, sender), sender.tab?.id = senderTab (0: undefined).
CE_handleMessage(message, senderTab) ==
  /\ transport = "ChromeExtension"
  /\ CE_microtasksDone
  /\ Len(events) < MaxEvents /\ Steps < MaxSteps
  /\ events' = Append(events, [message EXCEPT !.tab = senderTab])
  /\ IF ~listenerAttached
       THEN UNCHANGED <<tabId, error, recvs, receiveResolver, receiveQueue>>
       ELSE
         /\ tabId' = IF tabId = 0 /\ senderTab # 0 THEN senderTab ELSE tabId
         /\ IF tabId' # 0 /\ senderTab # tabId'
              THEN UNCHANGED <<error, recvs, receiveResolver, receiveQueue>>
              ELSE IF error # NoError
                THEN UNCHANGED <<error, recvs, receiveResolver, receiveQueue>>
                ELSE IF message.type = "CLOSE"
                  THEN CE_receivedError(CE_PeerClosed) /\ UNCHANGED receiveQueue
                  ELSE IF message.type = "MESSAGE"
                    THEN IF receiveResolver # 0
                           THEN /\ recvs' = [recvs EXCEPT ![receiveResolver] = Resolved(message.value)]
                                /\ receiveResolver' = 0
                                /\ UNCHANGED <<error, receiveQueue>>
                           ELSE /\ receiveQueue' = Append(receiveQueue, message.value)
                                /\ UNCHANGED <<error, recvs, receiveResolver>>
                    ELSE UNCHANGED <<error, recvs, receiveResolver, receiveQueue>>
  /\ UNCHANGED <<transport, others, stVars, wsVars, handshake, listenerAttached, ctorTabId, sends, chan, aborts>>

\* The handshake reply arrives on the port: handshakeComplete resolves.
CE_handshakeComplete ==
  /\ transport = "ChromeExtension"
  /\ CE_microtasksDone
  /\ handshake = "pending"
  /\ handshake' = "resolved"
  /\ UNCHANGED <<transport, others, stVars, wsVars, tabId, listenerAttached, ctorTabId, error, receiveQueue, receiveResolver,
                 recvs, sends, chan, events, aborts>>

\* CE_send, were it not to look at #error.
CE_send_ignoresError(message) ==
  /\ transport = "ChromeExtension"
  /\ Len(sends) < MaxSends /\ Steps < MaxSteps
  /\ sends' = Append(sends, [msg |-> message, st |-> "awaitHandshake", err |-> NoError])
  /\ UNCHANGED <<transport, others, stVars, wsVars, ceVars, error, receiveQueue, receiveResolver, recvs, chan,
                 events, aborts>>

\* send(), up to its first await.
CE_send(message) ==
  /\ transport = "ChromeExtension"
  /\ Len(sends) < MaxSends /\ Steps < MaxSteps
  /\ sends' = Append(sends, IF error # NoError
       THEN [msg |-> message, st |-> "rejected", err |-> error]
       ELSE [msg |-> message, st |-> "awaitHandshake", err |-> NoError])
  /\ UNCHANGED <<transport, others, stVars, wsVars, ceVars, error, receiveQueue, receiveResolver, recvs, chan,
                 events, aborts>>

\* CE_sendEnvelope, were send() not to await the handshake.
CE_sendEnvelope_skipsHandshake(i) ==
  /\ transport = "ChromeExtension"
  /\ i \in 1..Len(sends)
  /\ sends[i].st = "awaitHandshake"
  /\ \A j \in 1..(i - 1) : sends[j].st # "awaitHandshake"
  /\ chan' = Append(chan, [type |-> "MESSAGE", value |-> sends[i].msg, tab |-> tabId])
  /\ sends' = [sends EXCEPT ![i].st = "awaitChannel"]
  /\ UNCHANGED <<transport, others, stVars, wsVars, ceVars, error, receiveQueue, receiveResolver, recvs, events,
                 aborts>>

\* send() resumes after `await this.#handshakePromise` (in call order) and hands
\* the envelope to chrome messaging.
CE_sendEnvelope(i) ==
  /\ transport = "ChromeExtension"
  /\ i \in 1..Len(sends)
  /\ sends[i].st = "awaitHandshake"
  /\ \A j \in 1..(i - 1) : sends[j].st # "awaitHandshake"
  /\ handshake # "pending"
  /\ chan' = Append(chan, [type |-> "MESSAGE", value |-> sends[i].msg, tab |-> tabId])
  /\ sends' = [sends EXCEPT ![i].st = "awaitChannel"]
  /\ UNCHANGED <<transport, others, stVars, wsVars, ceVars, error, receiveQueue, receiveResolver, recvs, events,
                 aborts>>

\* send() resumes after the sendMessage promise settles: outcome is "ok",
\* "lastError" (chrome.runtime.lastError is set) or "rejected" (it is not).
CE_sendSettled(i, outcome) ==
  /\ transport = "ChromeExtension"
  /\ i \in 1..Len(sends)
  /\ sends[i].st = "awaitChannel"
  /\ CE_microtasksDone
  /\ IF outcome = "lastError"
       THEN /\ CE_receivedError(CE_SendFailed)
            /\ sends' = [sends EXCEPT ![i].st = "rejected", ![i].err = error']
       ELSE /\ UNCHANGED <<error, recvs, receiveResolver>>
            /\ sends' = IF outcome = "ok"
                 THEN [sends EXCEPT ![i].st = "resolved"]
                 ELSE [sends EXCEPT ![i].st = "rejected", ![i].err = CE_ChannelRejected]
  /\ UNCHANGED <<transport, others, stVars, wsVars, ceVars, receiveQueue, chan, events, aborts>>

CE_receive ==
  /\ transport = "ChromeExtension"
  /\ Len(recvs) < MaxReceives /\ Steps < MaxSteps
  /\ IF Len(receiveQueue) > 0
       THEN /\ recvs' = Append(recvs, Resolved(Head(receiveQueue)))
            /\ receiveQueue' = Tail(receiveQueue)
            /\ UNCHANGED receiveResolver
       ELSE IF error # NoError
         THEN /\ recvs' = Append(recvs, Rejected(error))
              /\ UNCHANGED <<receiveQueue, receiveResolver>>
         ELSE /\ recvs' = Append(recvs, Pending)
              /\ receiveResolver' = Len(recvs) + 1
              /\ UNCHANGED receiveQueue
  /\ UNCHANGED <<transport, others, stVars, wsVars, ceVars, error, sends, chan, events, aborts>>

CE_abort_overwrites(reason) ==
  /\ transport = "ChromeExtension"
  /\ Len(aborts) < MaxAborts /\ Steps < MaxSteps
  /\ aborts' = Append(aborts, [reason |-> reason, prior |-> error])
  /\ listenerAttached' = FALSE
  /\ chan' = Append(chan, [type |-> "CLOSE", value |-> NoMsg, tab |-> tabId])
  /\ error' = reason
  /\ UNCHANGED <<transport, others, stVars, wsVars, tabId, handshake, ctorTabId, receiveQueue, receiveResolver, recvs, sends,
                 events>>

CE_abort(reason) ==
  /\ transport = "ChromeExtension"
  /\ Len(aborts) < MaxAborts /\ Steps < MaxSteps
  /\ aborts' = Append(aborts, [reason |-> reason, prior |-> error])
  /\ listenerAttached' = FALSE
  /\ chan' = Append(chan, [type |-> "CLOSE", value |-> NoMsg, tab |-> tabId])
  /\ error' = IF error = NoError THEN reason ELSE error
  /\ UNCHANGED <<transport, others, stVars, wsVars, tabId, handshake, ctorTabId, receiveQueue, receiveResolver, recvs, sends,
                 events>>

\* ------------------------------------------------------------ Stream
S_Closed == "Error: Stream readable closed."
S_ClosedEarly == "Error: Stream readable closed before message complete."
S_TypeError == "TypeError: StreamTransport.send expected Uint8Array, ArrayBuffer, or ArrayBufferView"
S_SinkFailed == "Error: sink failed"
S_SourceFailed == "Error: source failed"

\* Messages offered to StreamTransport.send.
StreamMsgs == {U8(<<>>), AB(<<0, 1>>), Str(<<1>>)}

\* `err instanceof Error ? err : new Error(...)` in the two catch blocks.
S_writeErrorOf(err) == IF IsErrorInstance(err) THEN err ELSE "Error: Stream write error: <reason>"
S_readErrorOf(err) == IF IsErrorInstance(err) THEN err ELSE "Error: Stream read error: <reason>"

concatBuffers(a, b) == a \o b

\* wireMessageToUint8Array, were it to take the characters of a string for bytes.
wireMessageToUint8Array_acceptsString(x) == x.data

\* wireMessageToUint8Array: the bytes, or <<-1>> where it throws the TypeError.
wireMessageToUint8Array(x) == IF x.kind \in {"u8", "ab"} THEN x.data ELSE <<-1>>

\* setUint32, were it little-endian.
setUint32_littleEndian(n) == <<n % 256, (n \div 256) % 256, (n \div 65536) % 256, (n \div 16777216) % 256>>

\* DataView.setUint32(0, n, false) on a fresh 4-byte array, and getUint32(0, false):
\* big-endian.  (A length here is far below 2^32, where setUint32 would wrap.)
setUint32(n) == <<(n \div 16777216) % 256, (n \div 65536) % 256, (n \div 256) % 256, n % 256>>
getUint32(b) == b[1] * 16777216 + b[2] * 65536 + b[3] * 256 + b[4]

\* readWireMessage, were it to drop the bytes that follow the message it returns.
readWireMessage_dropsRest(buf, exp) ==
  LET parsed == exp = -1 /\ Len(buf) >= 4
      e == IF parsed THEN getUint32(buf) ELSE exp
      b == IF parsed THEN SubSeq(buf, 5, Len(buf)) ELSE buf
  IN  IF e = -1 \/ Len(b) < e
        THEN [done |-> FALSE, message |-> <<>>, buf |-> b, exp |-> e]
        ELSE [done |-> TRUE, message |-> SubSeq(b, 1, e), buf |-> <<>>, exp |-> -1]

\* #readWireMessage run on buffer buf with #expectedLength exp, up to the point where
\* it returns a message (done) or awaits #reader.read().
readWireMessage(buf, exp) ==
  LET parsed == exp = -1 /\ Len(buf) >= 4
      e == IF parsed THEN getUint32(buf) ELSE exp
      b == IF parsed THEN SubSeq(buf, 5, Len(buf)) ELSE buf
  IN  IF e = -1 \/ Len(b) < e
        THEN [done |-> FALSE, message |-> <<>>, buf |-> b, exp |-> e]
        ELSE [done |-> TRUE, message |-> SubSeq(b, 1, e),
              buf |-> SubSeq(b, e + 1, Len(b)), exp |-> -1]

\* S_receive, were it not to look at #error.
S_receive_ignoresError ==
  /\ transport = "Stream"
  /\ Len(recvs) < MaxReceives /\ Steps < MaxSteps
  /\ reading = 0
  /\ LET r == readWireMessage(readBuffer, expectedLength)
     IN  /\ readBuffer' = r.buf
         /\ expectedLength' = r.exp
         /\ IF r.done
              THEN recvs' = Append(recvs, Resolved(U8(r.message))) /\ reading' = 0
              ELSE recvs' = Append(recvs, Pending) /\ reading' = Len(recvs) + 1
  /\ UNCHANGED <<transport, others, wsVars, ceVars, error, receiveQueue, receiveResolver, sends, chan,
                 events, aborts, wire, sunk, wstate, rstate>>

\* receive(), up to its first await.  The caller has one receive() in flight at a time.
S_receive ==
  /\ transport = "Stream"
  /\ Len(recvs) < MaxReceives /\ Steps < MaxSteps
  /\ reading = 0
  /\ IF error # NoError
       THEN /\ recvs' = Append(recvs, Rejected(error))
            /\ UNCHANGED <<readBuffer, expectedLength, reading>>
       ELSE LET r == readWireMessage(readBuffer, expectedLength)
            IN  /\ readBuffer' = r.buf
                /\ expectedLength' = r.exp
                /\ IF r.done
                     THEN recvs' = Append(recvs, Resolved(U8(r.message))) /\ reading' = 0
                     ELSE recvs' = Append(recvs, Pending) /\ reading' = Len(recvs) + 1
  /\ UNCHANGED <<transport, others, wsVars, ceVars, error, receiveQueue, receiveResolver, sends, chan,
                 events, aborts, wire, sunk, wstate, rstate>>

\* #reader.read() resolves with a chunk: the next k bytes the readable holds.
S_read(k) ==
  /\ transport = "Stream"
  /\ reading # 0
  /\ rstate \in {"readable", "closed"}
  /\ k \in 1..Len(wire)
  /\ wire' = SubSeq(wire, k + 1, Len(wire))
  /\ LET r == readWireMessage(concatBuffers(readBuffer, SubSeq(wire, 1, k)), expectedLength)
     IN  /\ readBuffer' = r.buf
         /\ expectedLength' = r.exp
         /\ IF r.done
              THEN recvs' = [recvs EXCEPT ![reading] = Resolved(U8(r.message))] /\ reading' = 0
              ELSE UNCHANGED <<recvs, reading>>
  /\ UNCHANGED <<transport, others, wsVars, ceVars, error, receiveQueue, receiveResolver, sends, chan,
                 events, aborts, sunk, wstate, rstate>>

\* S_readDone, were receive() to return the bytes buffered so far.
S_readDone_returnsPartial ==
  /\ transport = "Stream"
  /\ reading # 0
  /\ rstate = "cancelled" \/ (rstate = "closed" /\ wire = <<>>)
  /\ recvs' = [recvs EXCEPT ![reading] = Resolved(U8(readBuffer))]
  /\ reading' = 0
  /\ UNCHANGED <<transport, others, wsVars, ceVars, receiveQueue, receiveResolver, sends, chan, events,
                 aborts, readBuffer, expectedLength, wire, sunk, wstate, rstate, error>>

\* #reader.read() resolves with done: the readable ended or was cancelled.
S_readDone ==
  /\ transport = "Stream"
  /\ reading # 0
  /\ rstate = "cancelled" \/ (rstate = "closed" /\ wire = <<>>)
  /\ error' = S_readErrorOf(IF expectedLength = -1 THEN S_Closed ELSE S_ClosedEarly)
  /\ recvs' = [recvs EXCEPT ![reading] = Rejected(error')]
  /\ reading' = 0
  /\ UNCHANGED <<transport, others, wsVars, ceVars, receiveQueue, receiveResolver, sends, chan, events,
                 aborts, readBuffer, expectedLength, wire, sunk, wstate, rstate>>

\* #reader.read() rejects: the readable is errored.
S_readFailed ==
  /\ transport = "Stream"
  /\ reading # 0
  /\ rstate = "errored"
  /\ error' = S_readErrorOf(S_SourceFailed)
  /\ recvs' = [recvs EXCEPT ![reading] = Rejected(error')]
  /\ reading' = 0
  /\ UNCHANGED <<transport, others, wsVars, ceVars, receiveQueue, receiveResolver, sends, chan, events,
                 aborts, readBuffer, expectedLength, wire, sunk, wstate, rstate>>

\* Whether a send() is still running.
S_sendInFlight == \E i \in 1..Len(sends) : sends[i].st \in {"awaitReady", "awaitPrefix", "awaitData"}

\* send(), up to its first await.  Each promise keeps, besides its state: wrote, the
\* places in chan of the chunks this call passed to #writer.write; overlap, whether
\* an earlier send() was still running when this one was called.
S_send(message) ==
  /\ transport = "Stream"
  /\ Len(sends) < MaxSends /\ Steps < MaxSteps
  /\ sends' = Append(sends,
       IF error # NoError
         THEN [msg |-> message, st |-> "rejected", err |-> error, wrote |-> <<>>,
               overlap |-> S_sendInFlight]
         ELSE IF wireMessageToUint8Array(message) = <<-1>>
           THEN [msg |-> message, st |-> "rejected", err |-> S_TypeError, wrote |-> <<>>,
                 overlap |-> S_sendInFlight]
           ELSE [msg |-> message, st |-> "awaitReady", err |-> NoError, wrote |-> <<>>,
                 overlap |-> S_sendInFlight])
  /\ UNCHANGED <<transport, others, wsVars, ceVars, stVars, error, receiveQueue, receiveResolver, recvs,
                 chan, events, aborts>>

\* The chunk whose write() promise send number i awaits.
S_awaited(i) == sends[i].wrote[Len(sends[i].wrote)]

\* The catch block of send().
S_sendCatch(i) ==
  /\ error' = S_writeErrorOf(wstate)
  /\ sends' = [sends EXCEPT ![i].st = "rejected", ![i].err = error']
  /\ UNCHANGED chan

\* send() resumes after `await this.#writer.ready` (in call order): write(lengthPrefix).
S_sendReady(i) ==
  /\ transport = "Stream"
  /\ i \in 1..Len(sends)
  /\ sends[i].st = "awaitReady"
  /\ \A j \in 1..(i - 1) : sends[j].st # "awaitReady"
  /\ IF wstate # NoError
       THEN S_sendCatch(i)
       ELSE /\ chan' = Append(chan, [type |-> "write", tab |-> 0,
                 value |-> U8(setUint32(Len(wireMessageToUint8Array(sends[i].msg))))])
            /\ sends' = [sends EXCEPT ![i].st = "awaitPrefix", ![i].wrote = Append(@, Len(chan) + 1)]
            /\ UNCHANGED error
  /\ UNCHANGED <<transport, others, wsVars, ceVars, stVars, receiveQueue, receiveResolver, recvs, events,
                 aborts>>

\* send() resumes after `await this.#writer.write(lengthPrefix)`: write(data).
S_sendPrefixWritten(i) ==
  /\ transport = "Stream"
  /\ i \in 1..Len(sends)
  /\ sends[i].st = "awaitPrefix"
  /\ sunk >= S_awaited(i) \/ wstate # NoError
  /\ IF wstate # NoError
       THEN S_sendCatch(i)
       ELSE /\ chan' = Append(chan, [type |-> "write", tab |-> 0,
                 value |-> U8(wireMessageToUint8Array(sends[i].msg))])
            /\ sends' = [sends EXCEPT ![i].st = "awaitData", ![i].wrote = Append(@, Len(chan) + 1)]
            /\ UNCHANGED error
  /\ UNCHANGED <<transport, others, wsVars, ceVars, stVars, receiveQueue, receiveResolver, recvs, events,
                 aborts>>

\* send() resumes after `await this.#writer.write(data)`.
S_sendDataWritten(i) ==
  /\ transport = "Stream"
  /\ i \in 1..Len(sends)
  /\ sends[i].st = "awaitData"
  /\ sunk >= S_awaited(i) \/ wstate # NoError
  /\ IF sunk >= S_awaited(i)
       THEN sends' = [sends EXCEPT ![i].st = "resolved"] /\ UNCHANGED <<error, chan>>
       ELSE S_sendCatch(i)
  /\ UNCHANGED <<transport, others, wsVars, ceVars, stVars, receiveQueue, receiveResolver, recvs, events,
                 aborts>>

S_abort(reason) ==
  /\ transport = "Stream"
  /\ Len(aborts) < MaxAborts /\ Steps < MaxSteps
  /\ aborts' = Append(aborts, [reason |-> reason, prior |-> error])
  /\ error' = IF error = NoError THEN reason ELSE error
  /\ rstate' = IF rstate \in {"readable", "closed"} THEN "cancelled" ELSE rstate
  /\ wire' = IF rstate \in {"readable", "closed"} THEN <<>> ELSE wire
  /\ wstate' = IF wstate = NoError THEN reason ELSE wstate
  /\ UNCHANGED <<transport, others, wsVars, ceVars, receiveQueue, receiveResolver, recvs, sends, chan,
                 events, readBuffer, expectedLength, reading, sunk>>

\* The streams underneath: the sink takes the next chunk written and (the two
\* directions being joined end to end) the readable gets its bytes.
S_sinkWrite ==
  /\ transport = "Stream"
  /\ wstate = NoError
  /\ sunk < Len(chan)
  /\ sunk' = sunk + 1
  /\ wire' = IF rstate = "readable" THEN wire \o chan[sunk + 1].value.data ELSE wire
  /\ UNCHANGED <<transport, others, wsVars, ceVars, error, receiveQueue, receiveResolver, recvs, sends,
                 chan, events, aborts, readBuffer, expectedLength, reading, wstate, rstate>>

S_sinkError ==
  /\ transport = "Stream"
  /\ Len(events) < MaxEvents /\ Steps < MaxSteps
  /\ wstate = NoError
  /\ wstate' = S_SinkFailed
  /\ events' = Append(events, Event("sink error", NoMsg, 0))
  /\ UNCHANGED <<transport, others, wsVars, ceVars, error, receiveQueue, receiveResolver, recvs, sends,
                 chan, aborts, readBuffer, expectedLength, reading, wire, sunk, rstate>>

S_sourceEnd ==
  /\ transport = "Stream"
  /\ Len(events) < MaxEvents /\ Steps < MaxSteps
  /\ rstate = "readable"
  /\ rstate' = "closed"
  /\ events' = Append(events, Event("end", NoMsg, 0))
  /\ UNCHANGED <<transport, others, wsVars, ceVars, error, receiveQueue, receiveResolver, recvs, sends,
                 chan, aborts, readBuffer, expectedLength, reading, wire, sunk, wstate>>

\* The readable ends with only the first k of the bytes in flight delivered.
S_sourceCut(k) ==
  /\ transport = "Stream"
  /\ Len(events) < MaxEvents /\ Steps < MaxSteps
  /\ rstate = "readable"
  /\ k \in 0..(Len(wire) - 1)
  /\ rstate' = "closed"
  /\ wire' = SubSeq(wire, 1, k)
  /\ events' = Append(events, Event("end", NoMsg, 0))
  /\ UNCHANGED <<transport, others, wsVars, ceVars, error, receiveQueue, receiveResolver, recvs, sends,
                 chan, aborts, readBuffer, expectedLength, reading, sunk, wstate>>

S_sourceError ==
  /\ transport = "Stream"
  /\ Len(events) < MaxEvents /\ Steps < MaxSteps
  /\ rstate = "readable"
  /\ rstate' = "errored"
  /\ wire' = <<>>
  /\ events' = Append(events, Event("source error", NoMsg, 0))
  /\ UNCHANGED <<transport, others, wsVars, ceVars, error, receiveQueue, receiveResolver, recvs, sends,
                 chan, aborts, readBuffer, expectedLength, reading, sunk, wstate>>

\* ------------------------------------------------ MessagePort, a pair
\* Two MessagePortTransports joined by a FIFO channel.  The transport object of
\* the model is B, the receiving end; peer is A: its #error, the envelopes it passed
\* to postMessage (posted), whether it called endpoint.close(), and the promises its
\* send() returned.  The channel has delivered to B the first Len(events) envelopes.
MaxPairSends == 2       \* send() calls of A
MaxPairReceives == 3    \* receive() calls of B

NewPeer == [kind |-> "MessagePort", error |-> NoError, posted |-> <<>>, closed |-> FALSE,
            sends |-> <<>>]

\* A.send(message).
Pair_send(message) ==
  /\ peer.kind = "MessagePort"
  /\ Len(peer.sends) < MaxPairSends
  /\ peer' = IF peer.error # NoError
       THEN [peer EXCEPT !.sends = Append(@, [msg |-> message, st |-> "rejected", err |-> peer.error])]
       ELSE [peer EXCEPT !.posted = Append(@, Event("MESSAGE", message, 0)),
                         !.sends = Append(@, [msg |-> message, st |-> "resolved", err |-> NoError])]
  /\ UNCHANGED <<transport, codecIn, codecOut, made, stVars, wsVars, ceVars, error, receiveQueue,
                 receiveResolver, recvs, sends, chan, events, aborts>>

\* A.abort(reason), called once.
Pair_abort(reason) ==
  /\ peer.kind = "MessagePort"
  /\ ~peer.closed
  /\ peer' = [peer EXCEPT !.posted = Append(@, Event("CLOSE", NoMsg, 0)),
                          !.closed = TRUE,
                          !.error = IF @ = NoError THEN reason ELSE @]
  /\ UNCHANGED <<transport, codecIn, codecOut, made, stVars, wsVars, ceVars, error, receiveQueue,
                 receiveResolver, recvs, sends, chan, events, aborts>>

\* The channel delivers A's next envelope: B's "message" listener runs on it.
Pair_deliver ==
  /\ peer.kind = "MessagePort"
  /\ Len(events) < Len(peer.posted)
  /\ MP_messageListener(peer.posted[Len(events) + 1])
  /\ UNCHANGED <<transport, others, stVars, wsVars, ceVars, sends, chan, aborts>>

\* B.receive().
Pair_receive ==
  /\ peer.kind = "MessagePort"
  /\ Len(recvs) < MaxPairReceives
  /\ MP_receiveBody
  /\ UNCHANGED <<transport, others, stVars, wsVars, ceVars, error, sends, chan, events, aborts>>


\* ------------------------------------------------------------- codecs
MaxCodecCalls == 2   \* codec method calls on one argument
MaxTreeLen == 2      \* elements of an array in a message tree

\* A host value as the classifiers see it: its typeof, the literal for a primitive
\* (and "null"), the constructor whose prototype is its [[Prototype]], the constructors
\* `instanceof` holds for ("ArrayBufferView" standing for ArrayBuffer.isView), and the
\* level stored under RAW_SUBTREE_BRAND, 0 when the value has no such property.
HostValue(t, lit, p, is) == [typeof |-> t, lit |-> lit, proto |-> p, instanceOf |-> is, brand |-> 0]

PrimitiveValues ==
  { HostValue("boolean", "true", "", {}), HostValue("boolean", "false", "", {}),
    HostValue("number", "1", "", {}), HostValue("number", "NaN", "", {}),
    HostValue("number", "Infinity", "", {}), HostValue("number", "-Infinity", "", {}),
    HostValue("string", "'a'", "", {}), HostValue("undefined", "undefined", "", {}),
    HostValue("bigint", "1n", "", {}), HostValue("symbol", "Symbol()", "", {}),
    HostValue("object", "null", "", {}) }

ObjectValues ==
  { HostValue("object", "", "Object", {"Object"}),
    HostValue("function", "", "Function", {"Function"}),
    HostValue("object", "", "Array", {"Array"}),
    HostValue("object", "", "Date", {"Date"}),
    HostValue("object", "", "Uint8Array", {"Uint8Array", "ArrayBufferView"}),
    HostValue("object", "", "Buffer", {"Uint8Array", "ArrayBufferView"}),
    HostValue("object", "", "Int32Array", {"ArrayBufferView"}),
    HostValue("object", "", "DataView", {"ArrayBufferView"}),
    HostValue("object", "", "ArrayBuffer", {"ArrayBuffer"}),
    HostValue("object", "", "Map", {"Map"}),
    HostValue("object", "", "Set", {"Set"}),
    HostValue("object", "", "RegExp", {"RegExp"}),
    HostValue("object", "", "Error", {"Error"}),
    HostValue("object", "", "TypeError", {"Error"}),
    HostValue("function", "", "RpcStub", {"RpcStub"}),
    HostValue("function", "", "RpcPromise", {"RpcPromise"}),
    HostValue("object", "", "MyTarget", {"RpcTarget"}),
    HostValue("object", "", "WeakMap", {"WeakMap"}),
    HostValue("object", "", "MyClass", {}) }

\* Values that exist only where the cloudflare:workers module does.
WorkersValues ==
  { HostValue("object", "", "workers.RpcStub", {}),
    HostValue("object", "", "workers.Fetcher", {"workers.ServiceStub"}),
    HostValue("object", "", "workers.RpcPromise", {}),
    HostValue("object", "", "workers.RpcProperty", {}) }

\* The levels a raw-subtree brand can carry, and the one the structured-clone
\* codecs can carry natively.
RawFeatures_StructuredClone == 2
BrandLevels == 1..3

\* Only objects and functions can carry the brand property.
HostValues(workersModule) ==
  LET objs == ObjectValues \cup (IF workersModule THEN WorkersValues ELSE {}) IN
  PrimitiveValues \cup objs \cup {[v EXCEPT !.brand = l] : v \in objs, l \in BrandLevels}

isRawSubtreeBranded(value) == value.brand # 0

\* JsonCodec.typeForRpc, were it to count undefined among the primitives.
JsonCodec_typeForRpc_undefinedPrimitive(value, workersModule) ==
  IF value.typeof \in {"boolean", "number", "string"} THEN "primitive"
  ELSE IF value.typeof = "undefined" THEN "primitive"
  ELSE IF value.typeof = "bigint" THEN "bigint"
  ELSE IF value.typeof \notin {"object", "function"} THEN "unsupported"
  ELSE IF value.lit = "null" THEN "primitive"
  ELSE CASE value.proto = "Object" -> "object"
         [] value.proto = "Function" -> "function"
         [] value.proto = "Array" -> "array"
         [] value.proto = "Date" -> "date"
         [] value.proto = "Uint8Array" -> "bytes"
         [] value.proto = "RpcStub" -> "stub"
         [] value.proto = "RpcPromise" -> "rpc-promise"
         [] OTHER ->
              IF workersModule /\ (value.proto = "workers.RpcStub"
                                     \/ "workers.ServiceStub" \in value.instanceOf)
                THEN "rpc-target"
              ELSE IF workersModule /\ value.proto \in {"workers.RpcPromise", "workers.RpcProperty"}
                THEN "rpc-thenable"
              ELSE IF "RpcTarget" \in value.instanceOf THEN "rpc-target"
              ELSE IF "Error" \in value.instanceOf THEN "error"
              ELSE "unsupported"

JsonCodec_typeForRpc(value, workersModule) ==
  IF value.typeof \in {"boolean", "number", "string"} THEN "primitive"
  ELSE IF value.typeof = "undefined" THEN "undefined"
  ELSE IF value.typeof = "bigint" THEN "bigint"
  ELSE IF value.typeof \notin {"object", "function"} THEN "unsupported"
  ELSE IF value.lit = "null" THEN "primitive"
  ELSE CASE value.proto = "Object" -> "object"
         [] value.proto = "Function" -> "function"
         [] value.proto = "Array" -> "array"
         [] value.proto = "Date" -> "date"
         [] value.proto = "Uint8Array" -> "bytes"
         [] value.proto = "RpcStub" -> "stub"
         [] value.proto = "RpcPromise" -> "rpc-promise"
         [] OTHER ->
              IF workersModule /\ (value.proto = "workers.RpcStub"
                                     \/ "workers.ServiceStub" \in value.instanceOf)
                THEN "rpc-target"
              ELSE IF workersModule /\ value.proto \in {"workers.RpcPromise", "workers.RpcProperty"}
                THEN "rpc-thenable"
              ELSE IF "RpcTarget" \in value.instanceOf THEN "rpc-target"
              ELSE IF "Error" \in value.instanceOf THEN "error"
              ELSE "unsupported"

\* PostMessageCodec.typeForRpc, were it to leave JSON primitives as they are.
PostMessageCodec_typeForRpc_keepsPrimitive(value, workersModule) ==
  LET base == JsonCodec_typeForRpc(value, workersModule) IN
  IF base # "unsupported"
    THEN CASE base \in {"bigint", "date", "bytes", "undefined"} -> "raw"
           [] base = "error" -> "error-raw"
           [] OTHER -> base
    ELSE IF value.typeof = "object" /\ value.lit # "null"
      THEN IF isRawSubtreeBranded(value) /\ value.brand <= RawFeatures_StructuredClone
             THEN "raw-subtree"
           ELSE IF "ArrayBufferView" \in value.instanceOf THEN "raw"
           ELSE IF "ArrayBuffer" \in value.instanceOf THEN "raw"
           ELSE IF "Map" \in value.instanceOf \/ "Set" \in value.instanceOf THEN "raw"
           ELSE IF "RegExp" \in value.instanceOf THEN "raw"
           ELSE base
      ELSE base

PostMessageCodec_typeForRpc(value, workersModule) ==
  LET base == JsonCodec_typeForRpc(value, workersModule) IN
  IF base # "unsupported"
    THEN CASE base \in {"primitive", "bigint", "date", "bytes", "undefined"} -> "raw"
           [] base = "error" -> "error-raw"
           [] OTHER -> base
    ELSE IF value.typeof = "object" /\ value.lit # "null"
      THEN IF isRawSubtreeBranded(value) /\ value.brand <= RawFeatures_StructuredClone
             THEN "raw-subtree"
           ELSE IF "ArrayBufferView" \in value.instanceOf THEN "raw"
           ELSE IF "ArrayBuffer" \in value.instanceOf THEN "raw"
           ELSE IF "Map" \in value.instanceOf \/ "Set" \in value.instanceOf THEN "raw"
           ELSE IF "RegExp" \in value.instanceOf THEN "raw"
           ELSE base
      ELSE base

ObjectCodec_typeForRpc(value, workersModule) == JsonCodec_typeForRpc(value, workersModule)

V8Codec_typeForRpc(value, workersModule) == PostMessageCodec_typeForRpc(value, workersModule)

\* typeForRpc of core.js, the base classifier of the contrib codecs.
typeForRpc(value, workersModule) == JsonCodec_typeForRpc(value, workersModule)

\* The contrib variant of ObjectCodec.typeForRpc.
Contrib_ObjectCodec_typeForRpc(value, workersModule) ==
  LET base == typeForRpc(value, workersModule) IN
  IF base # "unsupported"
    THEN CASE base \in {"bigint", "date", "bytes", "undefined"} -> "raw"
           [] base = "error" -> "error-raw"
           [] OTHER -> base
    ELSE IF value.typeof = "object" /\ value.lit # "null"
      THEN IF "ArrayBufferView" \in value.instanceOf THEN "raw"
           ELSE IF "ArrayBuffer" \in value.instanceOf THEN "raw"
           ELSE IF "Map" \in value.instanceOf \/ "Set" \in value.instanceOf THEN "raw"
           ELSE IF "RegExp" \in value.instanceOf THEN "raw"
           ELSE base
      ELSE base

\* The contrib variant of V8Codec.typeForRpc.
Contrib_V8Codec_typeForRpc(value, workersModule) ==
  LET base == typeForRpc(value, workersModule) IN
  IF base # "unsupported"
    THEN IF base \in {"bigint", "date", "bytes", "undefined"} THEN "raw" ELSE base
    ELSE IF value.typeof = "object" /\ value.lit # "null"
      THEN IF "ArrayBufferView" \in value.instanceOf THEN "raw"
           ELSE IF "ArrayBuffer" \in value.instanceOf THEN "raw"
           ELSE IF "Map" \in value.instanceOf \/ "Set" \in value.instanceOf THEN "raw"
           ELSE IF "RegExp" \in value.instanceOf THEN "raw"
           ELSE IF "Error" \in value.instanceOf THEN "error-raw"
           ELSE base
      ELSE base

\* The codec objects: the four of the library and the two contrib variants.
Codecs == {"json", "postmessage", "object", "v8", "contrib-object", "contrib-v8"}

Codec_classify(codec, value, workersModule) ==
  CASE codec = "json" -> JsonCodec_typeForRpc(value, workersModule)
    [] codec = "postmessage" -> PostMessageCodec_typeForRpc(value, workersModule)
    [] codec = "object" -> ObjectCodec_typeForRpc(value, workersModule)
    [] codec = "v8" -> V8Codec_typeForRpc(value, workersModule)
    [] codec = "contrib-object" -> Contrib_ObjectCodec_typeForRpc(value, workersModule)
    [] codec = "contrib-v8" -> Contrib_V8Codec_typeForRpc(value, workersModule)

\* Message trees (RPC expressions): null, a one-digit number, a one-character string
\* (n is its character code), or an array of trees.
Null == [t |-> "null", n |-> 0, items |-> <<>>]
Num(k) == [t |-> "num", n |-> k, items |-> <<>>]
StrT(c) == [t |-> "str", n |-> c, items |-> <<>>]
Arr(s) == [t |-> "arr", n |-> 0, items |-> s]

AtomTrees == {Null, Num(0), Num(7), StrT(97)}
Trees ==
  AtomTrees \cup {Arr(s) : s \in UNION {[1..k -> AtomTrees] : k \in 0..MaxTreeLen}}
            \cup {Arr(<<Arr(<<Num(7)>>)>>)}

\* JSON.stringify, to the text's character codes.
RECURSIVE JSON_stringify(_)
JSON_stringify(t) ==
  LET join[k \in 0..Len(t.items)] ==
        IF k = 0 THEN <<>>
        ELSE IF k = 1 THEN JSON_stringify(t.items[1])
        ELSE join[k - 1] \o <<44>> \o JSON_stringify(t.items[k])
  IN CASE t.t = "null" -> <<110, 117, 108, 108>>
       [] t.t = "num" -> <<48 + t.n>>
       [] t.t = "str" -> <<34, t.n, 34>>
       [] t.t = "arr" -> <<91>> \o join[Len(t.items)] \o <<93>>

Returned(v) == [threw |-> "none", value |-> v]
Threw(e) == [threw |-> e, value |-> Null]

Parsed(tree, next) == [ok |-> TRUE, tree |-> tree, next |-> next]
NotParsed == [ok |-> FALSE, tree |-> Null, next |-> 0]

\* JSON.parse: one value starting at s[i], and the elements of an array up to "]".
RECURSIVE JSON_parseValue(_, _)
RECURSIVE JSON_parseItems(_, _, _)
JSON_parseValue(s, i) ==
  IF i > Len(s) THEN NotParsed
  ELSE IF s[i] = 110
    THEN IF i + 3 <= Len(s) /\ SubSeq(s, i, i + 3) = <<110, 117, 108, 108>>
           THEN Parsed(Null, i + 4) ELSE NotParsed
  ELSE IF s[i] \in 48..57 THEN Parsed(Num(s[i] - 48), i + 1)
  ELSE IF s[i] = 34
    THEN IF i + 2 <= Len(s) /\ s[i + 1] # 34 /\ s[i + 2] = 34
           THEN Parsed(StrT(s[i + 1]), i + 3) ELSE NotParsed
  ELSE IF s[i] = 91
    THEN IF i + 1 <= Len(s) /\ s[i + 1] = 93
           THEN Parsed(Arr(<<>>), i + 2) ELSE JSON_parseItems(s, i + 1, <<>>)
  ELSE NotParsed

JSON_parseItems(s, i, acc) ==
  LET r == JSON_parseValue(s, i) IN
  IF ~r.ok \/ r.next > Len(s) THEN NotParsed
  ELSE IF s[r.next] = 44 THEN JSON_parseItems(s, r.next + 1, Append(acc, r.tree))
  ELSE IF s[r.next] = 93 THEN Parsed(Arr(Append(acc, r.tree)), r.next + 1)
  ELSE NotParsed

JSON_parse(s) ==
  LET r == JSON_parseValue(s, 1) IN
  IF r.ok /\ r.next = Len(s) + 1 THEN Returned(r.tree) ELSE Threw("SyntaxError")

\* v8.serialize: a two-byte header, then per value a tag byte and its payload.
RECURSIVE v8_writeValue(_)
v8_writeValue(t) ==
  LET all[k \in 0..Len(t.items)] ==
        IF k = 0 THEN <<>> ELSE all[k - 1] \o v8_writeValue(t.items[k])
  IN CASE t.t = "null" -> <<48>>
       [] t.t = "num" -> <<73, 2 * t.n>>
       [] t.t = "str" -> <<34, 1, t.n>>
       [] t.t = "arr" -> <<65, Len(t.items)>> \o all[Len(t.items)] \o <<36, 0, Len(t.items)>>

v8_serialize(t) == <<255, 15>> \o v8_writeValue(t)

\* v8.deserialize.
RECURSIVE v8_readValue(_, _)
RECURSIVE v8_readItems(_, _, _, _)
v8_readValue(b, i) ==
  IF i > Len(b) THEN NotParsed
  ELSE IF b[i] = 48 THEN Parsed(Null, i + 1)
  ELSE IF b[i] = 73
    THEN IF i + 1 <= Len(b) /\ b[i + 1] % 2 = 0
           THEN Parsed(Num(b[i + 1] \div 2), i + 2) ELSE NotParsed
  ELSE IF b[i] = 34
    THEN IF i + 2 <= Len(b) /\ b[i + 1] = 1 THEN Parsed(StrT(b[i + 2]), i + 3) ELSE NotParsed
  ELSE IF b[i] = 65
    THEN IF i + 1 <= Len(b) THEN v8_readItems(b, i + 2, b[i + 1], <<>>) ELSE NotParsed
  ELSE NotParsed

v8_readItems(b, i, n, acc) ==
  IF Len(acc) = n
    THEN IF i + 2 <= Len(b) /\ SubSeq(b, i, i + 2) = <<36, 0, n>>
           THEN Parsed(Arr(acc), i + 3) ELSE NotParsed
    ELSE LET r == v8_readValue(b, i) IN
         IF r.ok THEN v8_readItems(b, r.next, n, Append(acc, r.tree)) ELSE NotParsed

v8_deserialize(b) ==
  IF Len(b) < 2 \/ SubSeq(b, 1, 2) # <<255, 15>> THEN Threw("Error")
  ELSE LET r == v8_readValue(b, 3) IN
       IF r.ok /\ r.next = Len(b) + 1 THEN Returned(r.tree) ELSE Threw("Error")

\* What a message tree is as the value an identity encode() hands to the transport.
AsObject(t) == [kind |-> "tree", data |-> <<t>>]

\* encode(message) of each codec.
Codec_encodeOf(codec, message) ==
  CASE codec = "json" -> Returned(Str(JSON_stringify(message)))
    [] codec \in {"v8", "contrib-v8"} -> Returned(U8(v8_serialize(message)))
    [] codec \in {"postmessage", "object", "contrib-object"} -> Returned(AsObject(message))

\* The frames decode() is handed: the wire form of every tree in each representation,
\* malformed texts and bytes, and values that are no WireMessage at all.
NotWire == {[kind |-> k, data |-> <<>>] : k \in {"number", "object", "null", "undefined", "view"}}
CodecFrames ==
  {Str(JSON_stringify(t)) : t \in Trees} \cup {Str(<<>>), Str(<<91, 55>>)}
    \cup {U8(v8_serialize(t)) : t \in Trees} \cup {AB(v8_serialize(t)) : t \in Trees}
    \cup {U8(<<>>), AB(<<255, 15, 65>>)}
    \cup {AsObject(t) : t \in Trees} \cup NotWire

\* new Uint8Array(wire) for a wire that is not a Uint8Array: an ArrayBuffer is
\* viewed, anything else gives an empty or zero-filled array.
AsUint8Array(w) == IF w.kind \in {"u8", "ab"} THEN w.data ELSE <<>>

\* decode(wire), were JsonCodec to take bytes for the text they spell.
Codec_decodeOf_jsonTakesBytes(codec, w) ==
  CASE codec = "json" ->
         IF w.kind \notin {"string", "u8", "ab"} THEN Threw("TypeError")
         ELSE LET r == JSON_parse(w.data) IN
              IF r.threw = "none" THEN Returned(AsObject(r.value)) ELSE r
    [] codec = "v8" ->
         IF w.kind \notin {"u8", "ab"} THEN Threw("TypeError")
         ELSE LET r == v8_deserialize(AsUint8Array(w)) IN
              IF r.threw = "none" THEN Returned(AsObject(r.value)) ELSE r
    [] codec = "contrib-v8" ->
         IF w.kind = "string" THEN Threw("TypeError")
         ELSE LET r == v8_deserialize(AsUint8Array(w)) IN
              IF r.threw = "none" THEN Returned(AsObject(r.value)) ELSE r
    [] codec \in {"postmessage", "object", "contrib-object"} -> Returned(w)

\* decode(wire) of each codec.
Codec_decodeOf(codec, w) ==
  CASE codec = "json" ->
         IF w.kind # "string" THEN Threw("TypeError")
         ELSE LET r == JSON_parse(w.data) IN
              IF r.threw = "none" THEN Returned(AsObject(r.value)) ELSE r
    [] codec = "v8" ->
         IF w.kind \notin {"u8", "ab"} THEN Threw("TypeError")
         ELSE LET r == v8_deserialize(AsUint8Array(w)) IN
              IF r.threw = "none" THEN Returned(AsObject(r.value)) ELSE r
    [] codec = "contrib-v8" ->
         IF w.kind = "string" THEN Threw("TypeError")
         ELSE LET r == v8_deserialize(AsUint8Array(w)) IN
              IF r.threw = "none" THEN Returned(AsObject(r.value)) ELSE r
    [] codec \in {"postmessage", "object", "contrib-object"} -> Returned(w)

\* The calls.  codecIn is the argument: a host value (and whether the module was
\* loaded where cloudflare:workers exists), a message tree, or a frame; codecOut logs
\* each call's codec, method and outcome.
Call(codec, method, out) == [codec |-> codec, method |-> method, out |-> out]

Codec_typeForRpc(codec) ==
  /\ codecIn.op = "typeForRpc"
  /\ Len(codecOut) < MaxCodecCalls
  /\ codecOut' = Append(codecOut, Call(codec, "typeForRpc",
                          Returned(Codec_classify(codec, codecIn.value, codecIn.workersModule))))
  /\ UNCHANGED <<transport, peer, codecIn, made, stVars, wsVars, ceVars, error, receiveQueue,
                 receiveResolver, recvs, sends, chan, events, aborts>>

Codec_encode(codec) ==
  /\ codecIn.op = "encode"
  /\ Len(codecOut) < MaxCodecCalls
  /\ codecOut' = Append(codecOut, Call(codec, "encode", Codec_encodeOf(codec, codecIn.message)))
  /\ UNCHANGED <<transport, peer, codecIn, made, stVars, wsVars, ceVars, error, receiveQueue,
                 receiveResolver, recvs, sends, chan, events, aborts>>

\* decode() of what the last call, an encode() of the same codec, returned.
Codec_decodeEncoded(codec) ==
  /\ codecIn.op = "encode"
  /\ 0 < Len(codecOut) /\ Len(codecOut) < MaxCodecCalls
  /\ LET last == codecOut[Len(codecOut)] IN
       /\ last.codec = codec /\ last.method = "encode"
       /\ codecOut' = Append(codecOut, Call(codec, "decode", Codec_decodeOf(codec, last.out.value)))
  /\ UNCHANGED <<transport, peer, codecIn, made, stVars, wsVars, ceVars, error, receiveQueue,
                 receiveResolver, recvs, sends, chan, events, aborts>>

Codec_decode(codec) ==
  /\ codecIn.op = "decode"
  /\ Len(codecOut) < MaxCodecCalls
  /\ codecOut' = Append(codecOut, Call(codec, "decode", Codec_decodeOf(codec, codecIn.wire)))
  /\ UNCHANGED <<transport, peer, codecIn, made, stVars, wsVars, ceVars, error, receiveQueue,
                 receiveResolver, recvs, sends, chan, events, aborts>>

\* ------------------------------------------------------------- session helpers
MaxHelperCalls == 1   \* helper calls in one scenario

\* What a helper creates or calls, in order: the constructor or method, the object
\* it is given or called on, and for an RpcSession its localMain and options.codec,
\* for a Response its status.
Made(what, on, localMain, codec, status) ==
  [what |-> what, on |-> on, localMain |-> localMain, codec |-> codec, status |-> status]

\* options?.codec as the caller gives it: "undefined" when options or its codec is absent.
CallerCodecs == {"undefined", "json", "postmessage", "object", "v8"}
LocalMains == {"undefined", "main"}

\* options?.codec || dflt
OrDefault(codec, dflt) == IF codec = "undefined" THEN dflt ELSE codec

\* request.headers.get("Upgrade"): null when the header is absent, else its value
\* (character codes).
NoHeader == [present |-> FALSE, value |-> <<>>]
Header(s) == [present |-> TRUE, value |-> s]
UpgradeHeaders ==
  { NoHeader,
    Header(<<119, 101, 98, 115, 111, 99, 107, 101, 116>>),       \* websocket
    Header(<<87, 101, 98, 83, 111, 99, 107, 101, 116>>),         \* WebSocket
    Header(<<87, 69, 66, 83, 79, 67, 75, 69, 84>>),              \* WEBSOCKET
    Header(<<119, 101, 98, 115, 111, 99, 107, 101, 116, 115>>),  \* websockets
    Header(<<104, 50, 99>>),                                     \* h2c
    Header(<<>>) }

\* String.prototype.toLowerCase, were it to leave the string as it is.
toLowerCase_asIs(s) == s

toLowerCase(s) == [i \in 1..Len(s) |-> IF s[i] \in 65..90 THEN s[i] + 32 ELSE s[i]]

\* webSocket is a URL string or a socket object.
WebSocketArgs == {"'wss://host'", "socket"}

newWebSocketRpcSession(webSocket, localMain, codec) ==
  LET socket == IF webSocket = "'wss://host'" THEN "new WebSocket" ELSE webSocket IN
  (IF webSocket = "'wss://host'"
     THEN <<Made("WebSocket", webSocket, "undefined", "undefined", 0)>> ELSE <<>>)
    \o << Made("WebSocketTransport", socket, "undefined", "undefined", 0),
          Made("RpcSession", "WebSocketTransport", localMain, codec, 0) >>

newWorkersWebSocketRpcResponse(upgrade, localMain, codec) ==
  IF ~upgrade.present \/ toLowerCase(upgrade.value) # <<119, 101, 98, 115, 111, 99, 107, 101, 116>>
    THEN <<Made("Response", "null", "undefined", "undefined", 400)>>
    ELSE << Made("WebSocketPair", "", "undefined", "undefined", 0),
            Made("accept", "pair[0]", "undefined", "undefined", 0) >>
           \o newWebSocketRpcSession("pair[0]", localMain, codec)
           \o <<Made("Response", "pair[1]", "undefined", "undefined", 101)>>

newMessagePortRpcSession(localMain, codec) ==
  << Made("MessagePortTransport", "port", "undefined", "undefined", 0),
     Made("RpcSession", "MessagePortTransport", localMain, codec, 0) >>

newEndpointRpcSession(localMain, codec) ==
  << Made("MessagePortTransport", "endpoint", "undefined", "undefined", 0),
     Made("RpcSession", "MessagePortTransport", localMain, codec, 0) >>

\* The two helpers as the other copy of the MessagePort module has them.
Defaulting_newMessagePortRpcSession(localMain, codec) ==
  << Made("MessagePortTransport", "port", "undefined", "undefined", 0),
     Made("RpcSession", "MessagePortTransport", localMain, OrDefault(codec, "postmessage"), 0) >>

Defaulting_newEndpointRpcSession(localMain, codec) ==
  << Made("MessagePortTransport", "endpoint", "undefined", "undefined", 0),
     Made("RpcSession", "MessagePortTransport", localMain, OrDefault(codec, "postmessage"), 0) >>

newStreamRpcSessionImpl(localMain, codec) ==
  << Made("StreamTransport", "stream", "undefined", "undefined", 0),
     Made("RpcSession", "StreamTransport", localMain, OrDefault(codec, "v8"), 0) >>

newChromeExtensionRpcSession(localMain, codec) ==
  << Made("chrome.runtime.connect", "portName", "undefined", "undefined", 0),
     Made("port.onMessage.addListener", "port", "undefined", "undefined", 0),
     Made("ChromeExtensionTransport", "handshakeComplete", "undefined", "undefined", 0),
     Made("RpcSession", "ChromeExtensionTransport", localMain, OrDefault(codec, "object"), 0) >>

\* prefixed: port.name starts with PORT_PREFIX.
newChromeExtensionRpcResponse(prefixed, localMain, codec) ==
  IF ~prefixed THEN <<Made("throw Error", "Invalid port name", "undefined", "undefined", 0)>>
  ELSE << Made("ChromeExtensionTransport", "tabId", "undefined", "undefined", 0),
          Made("RpcSession", "ChromeExtensionTransport", localMain, OrDefault(codec, "object"), 0),
          Made("port.postMessage", "port", "undefined", "undefined", 0) >>

\* A helper call as made logs it: the call and what it created.
HelperCall(helper, upgrade, localMain, codec, effects) ==
  [helper |-> helper, upgrade |-> upgrade, localMain |-> localMain, codec |-> codec,
   effects |-> effects]

\* Everything but made.
notMade == <<transport, peer, codecIn, codecOut, stVars, wsVars, ceVars, error, receiveQueue,
             receiveResolver, recvs, sends, chan, events, aborts>>

Helper_newWebSocketRpcSession(webSocket, localMain, codec) ==
  /\ Len(made) < MaxHelperCalls
  /\ made' = Append(made, HelperCall("newWebSocketRpcSession", NoHeader, localMain, codec,
                                      newWebSocketRpcSession(webSocket, localMain, codec)))
  /\ UNCHANGED notMade

Helper_newWorkersWebSocketRpcResponse(upgrade, localMain, codec) ==
  /\ Len(made) < MaxHelperCalls
  /\ made' = Append(made, HelperCall("newWorkersWebSocketRpcResponse", upgrade, localMain, codec,
                                      newWorkersWebSocketRpcResponse(upgrade, localMain, codec)))
  /\ UNCHANGED notMade

Helper_newMessagePortRpcSession(localMain, codec) ==
  /\ Len(made) < MaxHelperCalls
  /\ made' = Append(made, HelperCall("newMessagePortRpcSession", NoHeader, localMain, codec,
                                      newMessagePortRpcSession(localMain, codec)))
  /\ UNCHANGED notMade

Helper_newEndpointRpcSession(localMain, codec) ==
  /\ Len(made) < MaxHelperCalls
  /\ made' = Append(made, HelperCall("newEndpointRpcSession", NoHeader, localMain, codec,
                                      newEndpointRpcSession(localMain, codec)))
  /\ UNCHANGED notMade

Helper_Defaulting_newMessagePortRpcSession(localMain, codec) ==
  /\ Len(made) < MaxHelperCalls
  /\ made' = Append(made, HelperCall("newMessagePortRpcSession", NoHeader, localMain, codec,
                                      Defaulting_newMessagePortRpcSession(localMain, codec)))
  /\ UNCHANGED notMade

Helper_Defaulting_newEndpointRpcSession(localMain, codec) ==
  /\ Len(made) < MaxHelperCalls
  /\ made' = Append(made, HelperCall("newEndpointRpcSession", NoHeader, localMain, codec,
                                      Defaulting_newEndpointRpcSession(localMain, codec)))
  /\ UNCHANGED notMade

Helper_newStreamRpcSession(localMain, codec) ==
  /\ Len(made) < MaxHelperCalls
  /\ made' = Append(made, HelperCall("newStreamRpcSession", NoHeader, localMain, codec,
                                      newStreamRpcSessionImpl(localMain, codec)))
  /\ UNCHANGED notMade

Helper_newChromeExtensionRpcSession(localMain, codec) ==
  /\ Len(made) < MaxHelperCalls
  /\ made' = Append(made, HelperCall("newChromeExtensionRpcSession", NoHeader, localMain, codec,
                                      newChromeExtensionRpcSession(localMain, codec)))
  /\ UNCHANGED notMade

Helper_newChromeExtensionRpcResponse(prefixed, localMain, codec) ==
  /\ Len(made) < MaxHelperCalls
  /\ made' = Append(made, HelperCall("newChromeExtensionRpcResponse", NoHeader, localMain, codec,
                                      newChromeExtensionRpcResponse(prefixed, localMain, codec)))
  /\ UNCHANGED notMade

\* ------------------------------------------------ Chrome extension, the handshake
\* The transport object of the model is the connecting side's, made by
\* newChromeExtensionRpcSession; peer is the answering side, which runs
\* newChromeExtensionRpcResponse in another context once the port connects: the
\* steps of the helper it has executed (done), whether its transport's
\* chrome.runtime.onMessage listener is attached, what was posted on the port, how
\* many of the connecting side's envelopes chrome messaging has dispatched to it,
\* and the types of those dispatched while it had no listener.
NewAnswerer ==
  [kind |-> "ChromeExtensionResponse", done |-> <<>>, listening |-> FALSE, port |-> <<>>,
   arrived |-> 0, missed |-> <<>>]

\* The answering side executes the next step of newChromeExtensionRpcResponse(port):
\* the port's name is the one newChromeExtensionRpcSession generated, so it carries
\* the prefix.  The transport's constructor attaches the onMessage listener.
CEResp_step ==
  /\ peer.kind = "ChromeExtensionResponse"
  /\ LET steps == newChromeExtensionRpcResponse(TRUE, "main", "undefined") IN
       /\ Len(peer.done) < Len(steps)
       /\ LET step == steps[Len(peer.done) + 1] IN
            peer' = [peer EXCEPT
                       !.done = Append(@, step),
                       !.listening = @ \/ step.what = "ChromeExtensionTransport",
                       !.port = IF step.what = "port.postMessage" THEN Append(@, "{}") ELSE @]
  /\ UNCHANGED <<transport, codecIn, codecOut, made, stVars, wsVars, ceVars, error, receiveQueue,
                 receiveResolver, recvs, sends, chan, events, aborts>>

\* The port delivers the reply to the connecting side's listener, which removes
\* itself, disconnects the port and resolves handshakeComplete.
CEPair_portMessage ==
  /\ peer.kind = "ChromeExtensionResponse"
  /\ peer.port # <<>>
  /\ CE_handshakeComplete

\* chrome messaging dispatches the connecting side's next envelope in the answering
\* side's context.
CEPair_dispatch ==
  /\ peer.kind = "ChromeExtensionResponse"
  /\ peer.arrived < Len(chan)
  /\ peer' = [peer EXCEPT
                !.arrived = @ + 1,
                !.missed = IF peer.listening THEN @ ELSE Append(@, chan[peer.arrived + 1].type)]
  /\ UNCHANGED <<transport, codecIn, codecOut, made, stVars, wsVars, ceVars, error, receiveQueue,
                 receiveResolver, recvs, sends, chan, events, aborts>>

\* ------------------------------------------------------- specification
Init ==
  /\ transport \in {"MessagePort", "MessagePortRaw", "WebSocket", "ChromeExtension", "Stream"}
  /\ peer = NoPeer
  /\ codecIn = NoInput
  /\ codecOut = <<>>
  /\ made = <<>>
  /\ error = NoError
  /\ receiveQueue = <<>>
  /\ receiveResolver = 0
  /\ recvs = <<>>
  /\ sends = <<>>
  /\ chan = <<>>
  /\ events = <<>>
  /\ aborts = <<>>
  /\ readyState \in (IF transport = "WebSocket" THEN {"CONNECTING", "OPEN"} ELSE {"none"})
  /\ sendQueue = [defined |-> readyState = "CONNECTING", items |-> <<>>]
  /\ ctorTabId \in (IF transport = "ChromeExtension" THEN {0, 1} ELSE {0})
  /\ tabId = ctorTabId
  /\ handshake \in (IF transport = "ChromeExtension" /\ tabId = 0 THEN {"none", "pending"} ELSE {"none"})
  /\ listenerAttached = TRUE
  /\ readBuffer = <<>>
  /\ expectedLength = -1
  /\ reading = 0
  /\ wire = <<>>
  /\ sunk = 0
  /\ wstate = NoError
  /\ rstate = "readable"

Next ==
  \/ \E ev \in MP_Data : MP_onmessage(ev)
  \/ MP_onmessageerror
  \/ \E m \in Frames : MP_send(m)
  \/ MP_receive
  \/ \E r \in Reasons : MP_abort(r)
  \/ \E d \in MPR_Data : MPR_onmessage(d)
  \/ MPR_onmessageerror
  \/ \E m \in Frames : MPR_send(m)
  \/ MPR_receive
  \/ \E r \in Reasons : MPR_abort(r)
  \/ \E k \in 0..MaxSends : WS_onopen(k)
  \/ \E d \in WS_Data : WS_onmessage(d)
  \/ WS_onclose
  \/ WS_onerror
  \/ \E m \in Frames, t \in BOOLEAN : WS_send(m, t)
  \/ WS_receive
  \/ \E r \in Reasons : WS_abort(r)
  \/ \E m \in CE_Inbound : CE_handleMessage(m, m.tab)
  \/ CE_handshakeComplete
  \/ \E m \in Frames : CE_send(m)
  \/ \E i \in 1..MaxSends : CE_sendEnvelope(i)
  \/ \E i \in 1..MaxSends, o \in {"ok", "lastError", "rejected"} : CE_sendSettled(i, o)
  \/ CE_receive
  \/ \E r \in Reasons : CE_abort(r)
  \/ S_receive
  \/ \E k \in 1..Len(wire) : S_read(k)
  \/ S_readDone
  \/ S_readFailed
  \/ \E m \in StreamMsgs : S_send(m)
  \/ \E i \in 1..MaxSends : S_sendReady(i)
  \/ \E i \in 1..MaxSends : S_sendPrefixWritten(i)
  \/ \E i \in 1..MaxSends : S_sendDataWritten(i)
  \/ \E r \in Reasons : S_abort(r)
  \/ S_sinkWrite
  \/ S_sinkError
  \/ S_sourceEnd
  \/ \E k \in 0..Len(wire) : S_sourceCut(k)
  \/ S_sourceError

Spec == Init /\ [][Next]_vars

\* Every handler, continuation and call that can run does run.
FairSpec == Spec /\ WF_vars(Next)

\* The pair of MessagePortTransports: B starts as in Init, A is fresh.
PairInit ==
  /\ transport = "MessagePort"
  /\ peer = NewPeer
  /\ codecIn = NoInput /\ codecOut = <<>> /\ made = <<>>
  /\ error = NoError /\ receiveQueue = <<>> /\ receiveResolver = 0
  /\ recvs = <<>> /\ sends = <<>> /\ chan = <<>> /\ events = <<>> /\ aborts = <<>>
  /\ readyState = "none" /\ sendQueue = [defined |-> FALSE, items |-> <<>>]
  /\ ctorTabId = 0 /\ tabId = 0 /\ handshake = "none" /\ listenerAttached = TRUE
  /\ readBuffer = <<>> /\ expectedLength = -1 /\ reading = 0
  /\ wire = <<>> /\ sunk = 0 /\ wstate = NoError /\ rstate = "readable"

PairNext ==
  \/ \E m \in Frames : Pair_send(m)
  \/ \E r \in Reasons : Pair_abort(r)
  \/ Pair_deliver
  \/ Pair_receive
  \/ \E r \in Reasons : MP_abort(r)

PairSpec == PairInit /\ [][PairNext]_vars

\* No transport object: the state of a program that has constructed none.
NoTransport ==
  /\ transport = "none"
  /\ error = NoError /\ receiveQueue = <<>> /\ receiveResolver = 0
  /\ recvs = <<>> /\ sends = <<>> /\ chan = <<>> /\ events = <<>> /\ aborts = <<>>
  /\ readyState = "none" /\ sendQueue = [defined |-> FALSE, items |-> <<>>]
  /\ ctorTabId = 0 /\ tabId = 0 /\ handshake = "none" /\ listenerAttached = FALSE
  /\ readBuffer = <<>> /\ expectedLength = -1 /\ reading = 0
  /\ wire = <<>> /\ sunk = 0 /\ wstate = NoError /\ rstate = "readable"

\* The codecs: an argument is chosen and codec methods are called on it.
CodecInit ==
  /\ NoTransport
  /\ peer = NoPeer /\ made = <<>>
  /\ codecOut = <<>>
  /\ codecIn \in
       {[op |-> "typeForRpc", value |-> v, workersModule |-> w] :
           w \in BOOLEAN, v \in HostValues(TRUE)}
         \cup {[op |-> "encode", message |-> t] : t \in Trees}
         \cup {[op |-> "decode", wire |-> w] : w \in CodecFrames}
  /\ codecIn.op = "typeForRpc" => codecIn.value \in HostValues(codecIn.workersModule)

CodecNext ==
  \/ \E c \in Codecs : Codec_typeForRpc(c)
  \/ \E c \in Codecs : Codec_encode(c)
  \/ \E c \in Codecs : Codec_decodeEncoded(c)
  \/ \E c \in Codecs : Codec_decode(c)

CodecSpec == CodecInit /\ [][CodecNext]_vars

\* The session helpers, called on fresh ports, sockets, streams and requests.
HelperInit ==
  /\ NoTransport
  /\ peer = NoPeer /\ codecIn = NoInput /\ codecOut = <<>>
  /\ made = <<>>

HelperNext ==
  \/ \E s \in WebSocketArgs, m \in LocalMains, c \in CallerCodecs :
       Helper_newWebSocketRpcSession(s, m, c)
  \/ \E u \in UpgradeHeaders, m \in LocalMains, c \in CallerCodecs :
       Helper_newWorkersWebSocketRpcResponse(u, m, c)
  \/ \E m \in LocalMains, c \in CallerCodecs : Helper_newMessagePortRpcSession(m, c)
  \/ \E m \in LocalMains, c \in CallerCodecs : Helper_newEndpointRpcSession(m, c)
  \/ \E m \in LocalMains, c \in CallerCodecs : Helper_Defaulting_newMessagePortRpcSession(m, c)
  \/ \E m \in LocalMains, c \in CallerCodecs : Helper_Defaulting_newEndpointRpcSession(m, c)
  \/ \E m \in LocalMains, c \in CallerCodecs : Helper_newStreamRpcSession(m, c)
  \/ \E m \in LocalMains, c \in CallerCodecs : Helper_newChromeExtensionRpcSession(m, c)
  \/ \E p \in BOOLEAN, m \in LocalMains, c \in CallerCodecs :
       Helper_newChromeExtensionRpcResponse(p, m, c)

HelperSpec == HelperInit /\ [][HelperNext]_vars

\* The handshake: newChromeExtensionRpcSession has returned on the connecting side
\* (a port is connecting, the transport awaits the reply); the answering side has
\* not run yet.
HandshakeInit ==
  /\ transport = "ChromeExtension"
  /\ peer = NewAnswerer
  /\ codecIn = NoInput /\ codecOut = <<>> /\ made = <<>>
  /\ error = NoError /\ receiveQueue = <<>> /\ receiveResolver = 0
  /\ recvs = <<>> /\ sends = <<>> /\ chan = <<>> /\ events = <<>> /\ aborts = <<>>
  /\ readyState = "none" /\ sendQueue = [defined |-> FALSE, items |-> <<>>]
  /\ ctorTabId = 0 /\ tabId = 0 /\ handshake = "pending" /\ listenerAttached = TRUE
  /\ readBuffer = <<>> /\ expectedLength = -1 /\ reading = 0
  /\ wire = <<>> /\ sunk = 0 /\ wstate = NoError /\ rstate = "readable"

HandshakeNext ==
  \/ CEResp_step
  \/ CEPair_portMessage
  \/ CEPair_dispatch
  \/ \E m \in Frames : CE_send(m)
  \/ \E i \in 1..MaxSends : CE_sendEnvelope(i)
  \/ \E i \in 1..MaxSends, o \in {"ok", "lastError", "rejected"} : CE_sendSettled(i, o)
  \/ \E r \in Reasons : CE_abort(r)

HandshakeSpec == HandshakeInit /\ [][HandshakeNext]_vars

\* ------------------------------------------------------------ claims
QueueTransports == {"MessagePort", "WebSocket", "ChromeExtension"}

\* No receive() was called while an earlier one was outstanding.  (On the queue
\* transports a receive() overtaken by a later one loses its resolver and stays
\* pending, so the overlap shows in recvs; the Stream model never overlaps them.)
OneReceiveAtATime == \A i \in 1..(Len(recvs) - 1) : recvs[i].st # "pending"

\* ChromeExtension: the tab the transport is bound to once event number i has passed
\* the auto-detection step, 0 while it is bound to none.
CE_boundTab(evs, i) ==
  IF ctorTabId # 0 THEN ctorTabId
  ELSE IF \E j \in 1..i : evs[j].tab # 0
    THEN evs[CHOOSE j \in 1..i : evs[j].tab # 0 /\ \A k \in 1..(j - 1) : evs[k].tab = 0].tab
    ELSE 0

\* Whether event number i of the log evs came over the transport's own channel.
OnChannel(evs, i) ==
  transport = "ChromeExtension" => (CE_boundTab(evs, i) = 0 \/ evs[i].tab = CE_boundTab(evs, i))

\* The frames that arrived on the channel, in arrival order.
Arrived ==
  LET F[i \in 0..Len(events)] ==
        IF i = 0 THEN <<>>
        ELSE IF events[i].type \in {"MESSAGE", "message"} /\ OnChannel(events, i)
          THEN Append(F[i - 1], events[i].value)
          ELSE F[i - 1]
  IN  F[Len(events)]

\* C1: on a MessagePort, WebSocket or ChromeExtension transport with no error
\* recorded and never more than one receive() outstanding, the k-th receive()
\* returns the k-th frame that arrived: a receive() beyond the frames arrived so far
\* is pending, and the frames not yet asked for wait in arrival order.
C1_FifoDelivery ==
  (transport \in QueueTransports /\ error = NoError /\ OneReceiveAtATime) =>
    /\ \A i \in 1..Len(recvs) :
         IF i <= Len(Arrived) THEN recvs[i] = Resolved(Arrived[i]) ELSE recvs[i] = Pending
    /\ receiveQueue = SubSeq(Arrived, Len(recvs) + 1, Len(Arrived))

\* Two different frames arrived and two receive() calls returned them.
C1_Witness ==
  /\ transport \in QueueTransports /\ error = NoError /\ OneReceiveAtATime
  /\ Len(Arrived) = 2 /\ Arrived[1] # Arrived[2]
  /\ Len(recvs) = 2 /\ recvs[1].st = "resolved" /\ recvs[2].st = "resolved"

\* The Uint8Array / ArrayBuffer messages passed to StreamTransport.send, in call order.
S_sent == SelectSeq(sends, LAMBDA x : x.msg.kind \in {"u8", "ab"})

\* No send() was called while an earlier one was running.
OneSendAtATime == \A i \in 1..Len(sends) : ~sends[i].overlap

\* A Stream transport whose two streams are healthy and joined end to end, used
\* with one send() at a time.
S_roundTrip ==
  /\ transport = "Stream" /\ error = NoError /\ wstate = NoError
  /\ aborts = <<>> /\ events = <<>> /\ OneSendAtATime

\* C2: messages sent one at a time through a StreamTransport and fed back, in
\* whatever chunks, to a StreamTransport's readable come out of successive
\* receive() calls as the same byte strings in the same order; a receive() is left
\* waiting with nothing more to come only when every message sent has been returned.
C2_StreamRoundTrip ==
  S_roundTrip =>
    /\ \A i \in 1..Len(recvs) :
         /\ recvs[i].st # "rejected"
         /\ recvs[i].st = "pending" => i = Len(recvs) /\ reading = i
         /\ recvs[i].st = "resolved" =>
              i <= Len(S_sent) /\ recvs[i].val = U8(S_sent[i].msg.data)
    /\ (reading # 0 /\ wire = <<>> /\ sunk = Len(chan) /\ ~S_sendInFlight) =>
         Len(recvs) = Len(S_sent) + 1 /\ readBuffer = <<>>

\* A zero-length message and a two-byte one went round.
C2_Witness ==
  /\ S_roundTrip
  /\ Len(recvs) = 2
  /\ recvs[1] = Resolved(U8(<<>>))
  /\ recvs[2] = Resolved(U8(<<0, 1>>))

\* C3: a StreamTransport.send(m) that resolved wrote exactly two chunks: four bytes
\* holding m's byte count as an unsigned big-endian integer, then m's bytes.
C3_SendWritesFrame ==
  transport = "Stream" =>
    /\ \A i \in 1..Len(sends) : sends[i].st = "resolved" =>
         LET w == sends[i].wrote IN
           /\ Len(w) = 2
           /\ LET p == chan[w[1]].value.data IN
                /\ Len(p) = 4
                /\ \A k \in 1..4 : p[k] \in 0..255
                /\ p[1] * 16777216 + p[2] * 65536 + p[3] * 256 + p[4] = Len(sends[i].msg.data)
           /\ chan[w[2]].value.data = sends[i].msg.data
    /\ \A c \in 1..Len(chan) :
         \E i \in 1..Len(sends) : \E k \in 1..Len(sends[i].wrote) : sends[i].wrote[k] = c

\* A send() of a non-empty message resolved.
C3_Witness ==
  /\ transport = "Stream"
  /\ \E i \in 1..Len(sends) : sends[i].st = "resolved" /\ Len(sends[i].msg.data) = 2

\* C4: the chunks of overlapping StreamTransport.send calls are not interleaved:
\* every length prefix is directly followed by the payload of the same message, and
\* the messages are written in the order send() was called.
C4_NoInterleaving ==
  transport = "Stream" =>
    \A i \in 1..Len(sends) :
      /\ Len(sends[i].wrote) = 2 => sends[i].wrote[2] = sends[i].wrote[1] + 1
      /\ \A j \in 1..(i - 1) :
           (sends[i].wrote # <<>> /\ sends[j].wrote # <<>>) => sends[j].wrote[1] < sends[i].wrote[1]

\* Steps, told by what they add to the logs.
ReceiveCalled == Len(recvs') = Len(recvs) + 1
SendCalled == Len(sends') = Len(sends) + 1
AbortCalled == Len(aborts') = Len(aborts) + 1
EventDelivered == Len(events') = Len(events) + 1

\* The error a transport makes of an event that reports the channel closed or
\* failed; NoError for every other event.
ClosureErrorOf(e) ==
  IF transport = "MessagePort" /\ e.type = "CLOSE" THEN MP_PeerClosed
  ELSE IF transport = "MessagePort" /\ e.type = "messageerror" THEN MP_MessageError
  ELSE IF transport = "WebSocket" /\ e.type = "close" THEN WS_PeerClosed
  ELSE IF transport = "WebSocket" /\ e.type = "error" THEN WS_Failed
  ELSE IF transport = "ChromeExtension" /\ e.type = "CLOSE" THEN CE_PeerClosed
  ELSE NoError

\* Whether event number i of the log evs is the channel reporting closure or failure.
IsClosure(evs, i) == ClosureErrorOf(evs[i]) # NoError /\ OnChannel(evs, i)

\* The step delivers such an event.
ChannelClosed == EventDelivered /\ IsClosure(events', Len(events'))

\* The channel has reported closure or failure; the error of its first report.
HasClosed == \E i \in 1..Len(events) : IsClosure(events, i)
FirstClosureError ==
  ClosureErrorOf(events[CHOOSE i \in 1..Len(events) :
    IsClosure(events, i) /\ \A j \in 1..(i - 1) : ~IsClosure(events, j)])

\* What C5_Original asks of a single step.
C5_OriginalStep ==
  /\ ChannelClosed =>
       \A i \in 1..Len(recvs) : recvs[i].st = "pending" =>
         recvs'[i] = Rejected(ClosureErrorOf(events'[Len(events')]))
  /\ (ReceiveCalled /\ HasClosed /\ receiveQueue = <<>>) =>
       recvs'[Len(recvs')] = Rejected(FirstClosureError)

\* C5 as stated: when the channel reports closure or failure, every receive()
\* pending at that moment rejects with the resulting error, and a receive() called
\* afterwards, the queued frames having been returned, rejects with that same error.
C5_Original == [][C5_OriginalStep]_vars

\* What C5_ClosureRejectsReceive asks of a single step.
C5_ClosureStep ==
  transport \in QueueTransports =>
    /\ (ChannelClosed /\ error = NoError) =>
         /\ error' = ClosureErrorOf(events'[Len(events')])
         /\ (recvs # <<>> /\ recvs[Len(recvs)].st = "pending") =>
              recvs'[Len(recvs)] = Rejected(error')
    /\ error # NoError => error' = error
    /\ (ReceiveCalled /\ error # NoError) =>
         recvs'[Len(recvs')] =
           (IF receiveQueue # <<>> THEN Resolved(Head(receiveQueue)) ELSE Rejected(error))

\* C5, amended: when the channel reports closure or failure and no error was recorded
\* before (abort() was not called, no unsupported frame arrived), the error of that
\* report is recorded and the most recent receive(), if pending, rejects with it;
\* the recorded error never changes, and a receive() called while it is recorded
\* returns a frame still queued or, the queue being empty, rejects with it.
C5_ClosureRejectsReceive == [][C5_ClosureStep]_vars

\* The channel closed under a pending receive(), which rejected with the closure's
\* error, as did a receive() called after it.
C5_Witness ==
  /\ transport \in QueueTransports /\ HasClosed /\ aborts = <<>>
  /\ error = FirstClosureError
  /\ Len(recvs) = 2 /\ recvs[1] = Rejected(error) /\ recvs[2] = Rejected(error)
  /\ Len(events) = 1

C6_AfterAbortStep ==
  transport \in QueueTransports =>
    /\ AbortCalled => recvs' = recvs /\ error' # NoError
    /\ aborts # <<>> =>
         /\ \A i \in 1..Len(recvs) : recvs'[i] = recvs[i]
         /\ ReceiveCalled =>
              recvs'[Len(recvs')] =
                (IF receiveQueue # <<>> THEN Resolved(Head(receiveQueue)) ELSE Rejected(error))

C7_OriginalStep ==
  (transport = "Stream" /\ aborts # <<>> /\ aborts[1].prior = NoError) =>
    /\ ReceiveCalled => recvs'[Len(recvs')] = Rejected(aborts[1].reason)
    /\ SendCalled =>
         /\ sends'[Len(sends')].st = "rejected"
         /\ sends'[Len(sends')].err = aborts[1].reason

\* C7: after StreamTransport.abort(reason) on a transport that had recorded no
\* error, every send() and receive() called from then on rejects with that reason.
C7_Original == [][C7_OriginalStep]_vars

\* What C8_SendAfterError asks of a single step.
C8_SendStep ==
  (transport \in {"MessagePort", "ChromeExtension", "Stream"} /\ error # NoError /\ SendCalled) =>
    /\ sends'[Len(sends')].st = "rejected"
    /\ sends'[Len(sends')].err = error
    /\ chan' = chan

\* C8: send() called on a MessagePort, ChromeExtension or Stream transport that has
\* an error recorded rejects with the recorded error and hands nothing to the channel.
C8_SendAfterError == [][C8_SendStep]_vars

\* The readable of a Stream transport ended under a receive(); the send() called
\* after that rejected with the error it left, and nothing was written.
C8_Witness ==
  /\ transport = "Stream" /\ error = S_Closed /\ chan = <<>>
  /\ \E i \in 1..Len(sends) :
       sends[i].msg.kind = "u8" /\ sends[i].st = "rejected" /\ sends[i].err = S_Closed

\* What C9_Original asks of a single step.
C9_OriginalStep ==
  (transport = "WebSocket" /\ error # NoError /\ SendCalled) =>
    /\ sends'[Len(sends')].st = "rejected"
    /\ sends'[Len(sends')].err = error
    /\ chan' = chan /\ sendQueue' = sendQueue

\* C9: send() called on a WebSocket transport that has an error recorded fails with
\* the recorded error and hands nothing to the socket.
C9_Original == [][C9_OriginalStep]_vars

\* WebSocket: the messages handed to WebSocket.send, and those passed to send().
WS_handed ==
  LET h == SelectSeq(chan, LAMBDA c : c.type = "send") IN [i \in 1..Len(h) |-> h[i].value]
WS_passed == [i \in 1..Len(sends) |-> sends[i].msg]

\* C10 as stated: nothing is handed to the socket before the open event; from the
\* open event on (or on a socket that was open from the start) the socket has been
\* handed every message passed to send(), in send order.
C10_Original ==
  transport = "WebSocket" =>
    /\ sendQueue.defined => WS_handed = <<>>
    /\ ~sendQueue.defined => WS_handed = WS_passed

\* C10, amended: until the open event the messages wait in #sendQueue in send order
\* and none is handed to the socket; on open they are handed over in that order,
\* before any later message, up to the first one on which WebSocket.send throws: the
\* thrown error is recorded and the queued messages after that one are never handed
\* over.  Once the queue is gone send() hands each message to the socket at once.
C10_QueuedUntilOpen ==
  transport = "WebSocket" =>
    /\ sendQueue.defined => WS_handed = <<>> /\ sendQueue.items = WS_passed
    /\ (~sendQueue.defined /\ error # WS_SendThrew) => WS_handed = WS_passed
    /\ (~sendQueue.defined /\ error = WS_SendThrew) =>
         \E k \in 1..Len(sends) : \E q \in k..Len(sends) :
           WS_handed = SubSeq(WS_passed, 1, k) \o SubSeq(WS_passed, q + 1, Len(sends))

\* Two different messages were passed to send() and the open event handed both over.
C10_Witness ==
  /\ transport = "WebSocket" /\ Fired("open") /\ error = NoError
  /\ Len(events) = 1 /\ Len(sends) = 2 /\ Steps = 3
  /\ WS_handed = WS_passed /\ WS_passed[1] # WS_passed[2]

\* The pair: the messages A's send() calls posted, in order, and how many of them
\* have arrived at B; whether A's CLOSE has arrived.
Pair_sent ==
  LET p == SelectSeq(peer.posted, LAMBDA e : e.type = "MESSAGE") IN [i \in 1..Len(p) |-> p[i].value]
Pair_arrived == Len(SelectSeq(events, LAMBDA e : e.type = "MESSAGE"))
Pair_closeArrived == \E i \in 1..Len(events) : events[i].type = "CLOSE"

\* C11: A sends m1..mn and then aborts; B, which has not aborted and calls receive()
\* one at a time, gets m1..mn in order from its receive() calls however these are
\* interleaved with the arrivals, a receive() past mn rejects with 'Peer closed
\* MessagePort connection.' once A's CLOSE has arrived, and A's abort does post it.
C11_NoLossOnClose ==
  (peer.kind = "MessagePort" /\ aborts = <<>> /\ OneReceiveAtATime) =>
    /\ \A i \in 1..Len(recvs) :
         recvs[i] = IF i <= Pair_arrived THEN Resolved(Pair_sent[i])
                    ELSE IF Pair_closeArrived THEN Rejected(MP_PeerClosed)
                    ELSE Pending
    /\ (peer.closed /\ Len(events) = Len(peer.posted)) => Pair_closeArrived

\* A sent two different messages and aborted; B's first two receive() calls returned
\* them and the third rejected.
C11_Witness ==
  /\ peer.kind = "MessagePort" /\ aborts = <<>> /\ peer.closed
  /\ Len(Pair_sent) = 2 /\ Pair_sent[1] # Pair_sent[2]
  /\ recvs = <<Resolved(Pair_sent[1]), Resolved(Pair_sent[2]), Rejected(MP_PeerClosed)>>

\* ------------------------------------------------------------- codecs: claims
\* The typeForRpc calls made so far on codec c, and the value they were made on.
KindsOf(c) ==
  {codecOut[i].out.value : i \in {k \in 1..Len(codecOut) :
      codecOut[k].codec = c /\ codecOut[k].method = "typeForRpc"}}

\* The structured-cloneable values that are not containers to descend into.
StructuredCloneable(v) ==
  \/ v.typeof \in {"boolean", "number", "string", "undefined", "bigint"}
  \/ v.lit = "null"
  \/ v.proto = "Date"
  \/ v.instanceOf \cap {"ArrayBufferView", "ArrayBuffer", "Map", "Set", "RegExp"} # {}

\* Branded as a raw subtree at a level the structured-clone codecs carry natively.
BrandedForStructuredClone(v) == isRawSubtreeBranded(v) /\ v.brand <= RawFeatures_StructuredClone

C14_Original ==
  codecIn.op = "typeForRpc" =>
    KindsOf("v8") \cup KindsOf("contrib-v8")
      \subseteq {PostMessageCodec_typeForRpc(codecIn.value, codecIn.workersModule)}

IsFiniteNumber(v) == v.typeof = "number" /\ v.lit \notin {"NaN", "Infinity", "-Infinity"}

\* C15 as stated: JsonCodec.typeForRpc returns 'primitive' exactly for booleans, finite
\* numbers, strings and null.
C15_Original ==
  (codecIn.op = "typeForRpc" /\ KindsOf("json") # {}) =>
    (KindsOf("json") = {"primitive"}
       <=> \/ codecIn.value.typeof \in {"boolean", "string"}
           \/ IsFiniteNumber(codecIn.value)
           \/ codecIn.value.lit = "null")

\* C15: JsonCodec.typeForRpc returns 'primitive' exactly for booleans, numbers (NaN,
\* Infinity and -Infinity included), strings and null; not for undefined, bigint or
\* any other value.
C15_PrimitiveExactly ==
  (codecIn.op = "typeForRpc" /\ KindsOf("json") # {}) =>
    (KindsOf("json") = {"primitive"}
       <=> \/ codecIn.value.typeof \in {"boolean", "number", "string"}
           \/ codecIn.value.lit = "null")

\* JsonCodec classified NaN.
C15_Witness ==
  /\ codecIn.op = "typeForRpc" /\ codecIn.value.lit = "NaN"
  /\ KindsOf("json") = {"primitive"}

\* C16: PostMessageCodec.typeForRpc returns 'raw-subtree' for every value branded as a
\* raw subtree at a level of at most RawFeatures.StructuredClone, whatever its shape.
C16_Original ==
  (codecIn.op = "typeForRpc" /\ BrandedForStructuredClone(codecIn.value))
    => KindsOf("postmessage") \subseteq {"raw-subtree"}

\* The decode() calls made so far on codec c.
DecodesOf(c) ==
  {codecOut[i].out : i \in {k \in 1..Len(codecOut) :
      codecOut[k].codec = c /\ codecOut[k].method = "decode"}}

\* C17: JsonCodec.decode throws a TypeError for every frame that is not a string,
\* V8Codec.decode throws a TypeError for every frame that is neither a Uint8Array nor
\* an ArrayBuffer, and ObjectCodec and PostMessageCodec decode(encode(t)) return t.
C17_WrongRepresentation ==
  /\ (codecIn.op = "decode" /\ codecIn.wire.kind # "string")
       => DecodesOf("json") \subseteq {Threw("TypeError")}
  /\ (codecIn.op = "decode" /\ codecIn.wire.kind \notin {"u8", "ab"})
       => DecodesOf("v8") \subseteq {Threw("TypeError")}
  /\ codecIn.op = "encode"
       => DecodesOf("object") \cup DecodesOf("postmessage")
            \subseteq {Returned(AsObject(codecIn.message))}

\* Both JsonCodec and V8Codec were handed a frame that is neither a string nor bytes.
C17_Witness ==
  /\ codecIn.op = "decode" /\ codecIn.wire.kind = "object"
  /\ DecodesOf("json") = {Threw("TypeError")}
  /\ DecodesOf("v8") = {Threw("TypeError")}

\* ------------------------------------------------------------- session helpers: claims
\* The Upgrade header is 'websocket' in some mix of upper and lower case.
IsWebSocketUpgrade(h) ==
  LET lit == <<119, 101, 98, 115, 111, 99, 107, 101, 116>> IN
  /\ h.present /\ Len(h.value) = Len(lit)
  /\ \A i \in 1..Len(lit) : h.value[i] \in {lit[i], lit[i] - 32}

Effects(call, what) == SelectSeq(call.effects, LAMBDA e : e.what = what)

\* C18: newWorkersWebSocketRpcResponse, when the Upgrade header is not 'websocket'
\* (any case), only builds a status-400 response: no WebSocketPair, transport or
\* session; otherwise it makes one pair, accepts pair[0], starts exactly one session on
\* a transport over pair[0] with the localMain it was given, and last builds a
\* status-101 response carrying pair[1].
C18_UpgradeOrReject ==
  \A k \in 1..Len(made) :
    LET call == made[k] IN
    call.helper = "newWorkersWebSocketRpcResponse" =>
      IF ~IsWebSocketUpgrade(call.upgrade)
        THEN call.effects = <<Made("Response", "null", "undefined", "undefined", 400)>>
        ELSE /\ Len(call.effects) = 5
             /\ call.effects[1].what = "WebSocketPair"
             /\ call.effects[2].what = "accept" /\ call.effects[2].on = "pair[0]"
             /\ call.effects[3].what = "WebSocketTransport" /\ call.effects[3].on = "pair[0]"
             /\ call.effects[4].what = "RpcSession"
             /\ call.effects[4].on = "WebSocketTransport"
             /\ call.effects[4].localMain = call.localMain
             /\ call.effects[5].what = "Response" /\ call.effects[5].status = 101
             /\ call.effects[5].on = "pair[1]"

\* The helper was called with 'WebSocket' in mixed case and upgraded.
C18_Witness ==
  \E k \in 1..Len(made) :
    /\ made[k].helper = "newWorkersWebSocketRpcResponse"
    /\ made[k].upgrade = Header(<<87, 101, 98, 83, 111, 99, 107, 101, 116>>)
    /\ made[k].localMain = "main"
    /\ Len(Effects(made[k], "RpcSession")) = 1

\* The default codec each helper documents.
DocumentedDefault(helper) ==
  CASE helper \in {"newMessagePortRpcSession", "newEndpointRpcSession"} -> "postmessage"
    [] helper = "newStreamRpcSession" -> "v8"
    [] helper \in {"newChromeExtensionRpcSession", "newChromeExtensionRpcResponse"} -> "object"

\* C20: the session a MessagePort, endpoint, stream or Chrome extension helper starts
\* gets the caller's options.codec when one is given, and the helper's documented
\* default (PostMessage, PostMessage, V8, object) otherwise.
C20_Original ==
  \A k \in 1..Len(made) :
    LET call == made[k] IN
    call.helper \notin {"newWebSocketRpcSession", "newWorkersWebSocketRpcResponse"} =>
      \A i \in 1..Len(call.effects) :
        call.effects[i].what = "RpcSession" =>
          call.effects[i].codec = OrDefault(call.codec, DocumentedDefault(call.helper))

\* ------------------------------------------------ Chrome extension handshake: claims
Handed(type) == \E i \in 1..Len(chan) : chan[i].type = type
ReplyPosted == \E i \in 1..Len(peer.done) : peer.done[i].what = "port.postMessage"

\* C19: the connecting side hands no MESSAGE envelope to chrome messaging before the
\* handshake reply has reached it; the reply is posted only after the answering side
\* attached its message listener; the port carries the one handshake reply and nothing
\* else; so no MESSAGE envelope is dispatched to the answering side while it has no
\* listener.
C19_HandshakeOrdering ==
  peer.kind = "ChromeExtensionResponse" =>
    /\ Handed("MESSAGE") => handshake = "resolved"
    /\ handshake = "resolved" => ReplyPosted
    /\ ReplyPosted => peer.listening
    /\ peer.port \in {<<>>, <<"{}">>}
    /\ \A i \in 1..Len(peer.missed) : peer.missed[i] # "MESSAGE"

\* A send() called before the reply arrived handed its envelope over afterwards, and
\* the answering side got it.
C19_Witness ==
  /\ peer.kind = "ChromeExtensionResponse"
  /\ Handed("MESSAGE") /\ peer.arrived = Len(chan) /\ peer.missed = <<>>
  /\ aborts = <<>>

\* ------------------------------------------------------------- later claims
\* C21: once ChromeExtensionTransport.abort() has been called (it hands the CLOSE
\* envelope over), the transport hands no MESSAGE envelope to chrome messaging.
C21_Original ==
  transport = "ChromeExtension" =>
    \A i \in 1..Len(chan), j \in 1..Len(chan) :
      (i < j /\ chan[i].type = "CLOSE") => chan[j].type # "MESSAGE"

\* C22: the recorded error of a MessagePort, WebSocket or ChromeExtension transport
\* is a one-shot latch: once set, no step (inbound event, failed send, abort)
\* clears it or replaces it by another error or abort reason.
C22_Step ==
  (transport \in QueueTransports /\ error # NoError) => error' = error

C22_ErrorIsLatch == [][C22_Step]_vars

\* an abort with a reason of its own was called on a transport that had already
\* recorded another error, and the recorded error is still the earlier one
C22_Witness ==
  /\ transport \in QueueTransports
  /\ \E i \in 1..Len(aborts) :
       /\ aborts[i].prior # NoError
       /\ aborts[i].prior # aborts[i].reason
       /\ error = aborts[i].prior

\* C23: tab isolation of ChromeExtensionTransport: once #tabId is set (given to the
\* constructor or adopted from a sender) no step changes it, and a runtime message
\* whose sender's tab differs from it (a CLOSE included) changes neither the receive
\* queue, nor any receive() promise, nor the recorded error.
C23_Step ==
  (transport = "ChromeExtension" /\ tabId # 0) =>
    /\ tabId' = tabId
    /\ \A e \in CE_Inbound :
         (events' = Append(events, e) /\ e.tab # tabId) =>
           UNCHANGED <<receiveQueue, recvs, receiveResolver, error>>

C23_TabIsolation == [][C23_Step]_vars

\* a CLOSE from tab 2 reached a listening transport bound to tab 1, which has
\* recorded no error
C23_Witness ==
  /\ transport = "ChromeExtension"
  /\ tabId = 1 /\ listenerAttached /\ error = NoError
  /\ \E i \in 1..Len(events) : events[i].tab = 2 /\ events[i].type = "CLOSE"

\* C24: a runtime message whose type is neither MESSAGE nor CLOSE leaves a
\* ChromeExtensionTransport as it was: tab id binding, receive queue, receive()
\* promises, pending receive and recorded error are unchanged by its delivery.
C24_Step ==
  (transport = "ChromeExtension"
     /\ \E e \in CE_Inbound : e.type = "other" /\ events' = Append(events, e)) =>
    UNCHANGED <<tabId, receiveQueue, recvs, receiveResolver, error>>

C24_Original == [][C24_Step]_vars

\* C25: on a MessagePort, WebSocket or ChromeExtension transport with no error
\* recorded, receive() calls that overlap are served in call order: whenever k
\* frames have arrived, the k-th receive() called so far has returned the k-th of
\* them, so no receive() promise is left pending behind a later one.
C25_Original ==
  (transport \in QueueTransports /\ error = NoError) =>
    \A i \in 1..Len(recvs) : i <= Len(Arrived) => recvs[i] = Resolved(Arrived[i])

\* C26: once a MessagePort, WebSocket or ChromeExtension transport has recorded an
\* error (a local abort included), an inbound event changes neither the receive
\* queue nor any receive() promise, and no step makes the receive queue grow: the
\* queue only loses its head to a receive().
C26_Step ==
  (transport \in QueueTransports /\ error # NoError) =>
    /\ \/ receiveQueue' = receiveQueue
       \/ receiveQueue # <<>> /\ receiveQueue' = Tail(receiveQueue)
    /\ events' # events => UNCHANGED <<receiveQueue, recvs, receiveResolver>>

C26_DroppedAfterError == [][C26_Step]_vars

\* a frame arrived after the error was recorded, with a receive() still waiting
C26_Witness ==
  /\ transport \in QueueTransports
  /\ error # NoError
  /\ Len(aborts) = 1 /\ aborts[1].prior = NoError
  /\ receiveResolver # 0
  /\ Len(events) = 1 /\ events[1].type \in {"MESSAGE", "message"}

\* The transports whose message handler answers an unrecognised payload with an error.
C27_Transports == {"MessagePort", "MessagePortRaw", "WebSocket"}

\* Whether the logged event e carries a payload the transport does not recognise:
\* MessagePort: data that is neither a MESSAGE nor a CLOSE envelope; raw-frame
\* MessagePort: data that is neither a string, an ArrayBuffer, a Uint8Array nor null;
\* WebSocket: data that is neither a string, an ArrayBuffer view nor an ArrayBuffer.
C27_Unrecognised(e) ==
  \/ transport = "MessagePort" /\ e.type = "other"
  \/ transport = "MessagePortRaw" /\ e.type = "data" /\ e.value.kind \notin {"string", "ab", "u8", "null"}
  \/ transport = "WebSocket" /\ e.type = "message" /\ e.value.kind \notin {"string", "ab", "u8"}

C27_TypeError == IF transport = "WebSocket" THEN WS_Unsupported ELSE MP_Unsupported

\* C27: while no error is recorded, an inbound payload that is not a recognised
\* frame is not delivered: it is not queued and resolves no receive(); the transport
\* records a TypeError, and the pending receive(), if there is one, is rejected with it.
C27_Step ==
  (transport \in C27_Transports /\ error = NoError
     /\ Len(events') = Len(events) + 1 /\ C27_Unrecognised(events'[Len(events')])) =>
    /\ error' = C27_TypeError
    /\ receiveQueue' = receiveQueue
    /\ receiveResolver' = 0
    /\ recvs' = IF receiveResolver # 0
                  THEN [recvs EXCEPT ![receiveResolver] = Rejected(C27_TypeError)]
                  ELSE recvs

C27_UnrecognisedIsTypeError == [][C27_Step]_vars

\* an unrecognised payload reached a raw-frame MessagePort transport that had a
\* receive() pending: the receive() was rejected with the TypeError
C27_Witness ==
  /\ transport = "MessagePortRaw"
  /\ error = MP_Unsupported
  /\ Len(events) = 1 /\ events[1].value = MPR_Object
  /\ Len(recvs) = 1 /\ recvs[1] = Rejected(MP_Unsupported)

\* Stream: the bytes the step takes from the readable.
S_consumed == SubSeq(wire, 1, Len(wire) - Len(wire'))

\* Stream: whether the bytes b, read with the length exp already announced (-1: none
\* yet), hold a whole frame whose payload is m.
S_wholeFrame(b, exp, m) ==
  IF exp # -1
    THEN Len(b) >= exp /\ m = SubSeq(b, 1, exp)
    ELSE /\ Len(b) >= 4
         /\ Len(b) - 4 >= getUint32(b)
         /\ m = SubSeq(b, 5, 4 + getUint32(b))

\* Stream: a receive() was rejected because the readable ended.
S_closedSeen ==
  \E i \in 1..Len(recvs) : recvs[i].st = "rejected" /\ recvs[i].err \in {S_Closed, S_ClosedEarly}

\* C28: StreamTransport.receive() returns only whole messages: a receive() resolves
\* with exactly the payload bytes its 4-byte big-endian prefix announced; when the
\* readable ends with less than a prefix or less than the announced payload buffered,
\* the waiting receive() rejects with the matching stream-closed error, which is
\* recorded; every receive() and send() called after that rejects.
C28_Step ==
  transport = "Stream" =>
    /\ \A i \in 1..Len(recvs') :
         (recvs'[i].st = "resolved" /\ (i > Len(recvs) \/ recvs[i].st # "resolved")) =>
           S_wholeFrame(readBuffer \o S_consumed, expectedLength, recvs'[i].val.data)
    /\ (reading # 0 /\ rstate = "closed" /\ wire = <<>> /\ reading' = 0) =>
         /\ recvs'[reading] = Rejected(IF expectedLength = -1 THEN S_Closed ELSE S_ClosedEarly)
         /\ error' = recvs'[reading].err
    /\ (S_closedSeen /\ Len(recvs') > Len(recvs)) => recvs'[Len(recvs')].st = "rejected"
    /\ (S_closedSeen /\ Len(sends') > Len(sends)) => sends'[Len(sends')].st = "rejected"

C28_NoPartialMessage == [][C28_Step]_vars

\* the readable ended inside a payload: the waiting receive() was rejected, and so
\* was the receive() called after it
C28_Witness ==
  /\ transport = "Stream"
  /\ Len(recvs) = 2
  /\ recvs[1] = Rejected(S_ClosedEarly)
  /\ recvs[2].st = "rejected"
  /\ readBuffer # <<>>

\* the readable ended inside a length prefix and the waiting receive() was rejected
C28_WitnessPrefix ==
  /\ transport = "Stream"
  /\ Len(readBuffer) \in 1..3 /\ expectedLength = -1
  /\ \E i \in 1..Len(recvs) : recvs[i] = Rejected(S_Closed)

\* C29: StreamTransport has one #error for both directions: it is never cleared, and
\* while it is set (by a failed write in send(), a failed read in receive() or an
\* abort) every send() called rejects with it and writes nothing, and every receive()
\* called rejects with it and takes nothing from the read buffer or the readable,
\* whatever frames are waiting there.
C29_Step ==
  (transport = "Stream" /\ error # NoError) =>
    /\ error' # NoError
    /\ Len(sends') > Len(sends) =>
         /\ sends'[Len(sends')].st = "rejected" /\ sends'[Len(sends')].err = error
         /\ UNCHANGED <<chan, sunk>>
    /\ Len(recvs') > Len(recvs) =>
         /\ recvs'[Len(recvs')] = Rejected(error)
         /\ UNCHANGED <<readBuffer, expectedLength, reading, wire>>

C29_SharedLatch == [][C29_Step]_vars

\* a write of send() failed; the receive() called after that was rejected with the
\* write's error although a whole frame was waiting on the read side
C29_Witness ==
  /\ transport = "Stream"
  /\ error = S_SinkFailed
  /\ \E i \in 1..Len(sends) : sends[i].st = "rejected" /\ sends[i].err = S_SinkFailed
  /\ \E i \in 1..Len(recvs) : recvs[i] = Rejected(S_SinkFailed)
  /\ S_wholeFrame(readBuffer \o wire, expectedLength, <<0, 1>>)

\* C30: StreamTransport.send() called with a string frame writes nothing and changes
\* nothing of the transport (recorded error, write and read side); with no error
\* recorded it rejects with the TypeError of wireMessageToUint8Array, so that a
\* send() of a binary frame called after it still goes through.
C30_Step ==
  (transport = "Stream" /\ Len(sends') > Len(sends) /\ sends'[Len(sends')].msg.kind = "string") =>
    /\ sends'[Len(sends')].st = "rejected"
    /\ error = NoError => sends'[Len(sends')].err = S_TypeError
    /\ UNCHANGED <<error, chan, stVars>>
    /\ \A i \in 1..Len(sends) : sends'[i] = sends[i]

C30_StringFrameRejected == [][C30_Step]_vars

\* a string frame was refused with the TypeError and the binary frame sent after it
\* was written and acknowledged
C30_Witness ==
  /\ transport = "Stream" /\ error = NoError
  /\ Len(sends) = 2
  /\ sends[1].msg.kind = "string" /\ sends[1].st = "rejected" /\ sends[1].err = S_TypeError
  /\ sends[2].msg = AB(<<0, 1>>) /\ sends[2].st = "resolved"
  /\ Len(chan) = 2 /\ chan[2].value = U8(<<0, 1>>)

====
